---- MODULE Spec2Model ----
(***************************************************************************)
(* Model of the firestarter-sdk PipeClient (src/src/client.ts): the        *)
(* account-scoped operations, the getAuthHeaders credential chain          *)
(* (valid token -> refresh -> re-login -> legacy key) and the mapping of   *)
(* remote answers to the SDK's error classes; and of the two localStorage  *)
(* wrappers PipeAccountStorage and PipeFileStorage (storage.ts).           *)
(*                                                                         *)
(* Every logical call runs on a cooperative scheduler: one action is the   *)
(* code between two awaits.  The remote service is the environment: each   *)
(* response action draws the answer (status, token data) from small sets.  *)
(***************************************************************************)
EXTENDS Integers, Sequences, FiniteSets, TLC

(***************************************************************************)
(* Bounds                                                                  *)
(***************************************************************************)
MaxTicks == 1
MaxIssued == 2
MaxExpiresIn == 1
MaxCalls == 2
MaxFiles == 2

\* the logical calls that can be in flight at the same time
Procs == {1, 2}

(***************************************************************************)
(* Strings are TLA+ strings; CharAt(s, i) is the i-th character.           *)
(***************************************************************************)
Lower == {"a","b","c","d","e","f","g","h","i","j","k","l","m",
          "n","o","p","q","r","s","t","u","v","w","x","y","z"}
Upper == {"A","B","C","D","E","F","G","H","I","J","K","L","M",
          "N","O","P","Q","R","S","T","U","V","W","X","Y","Z"}
Digit == {"0","1","2","3","4","5","6","7","8","9"}

CharAt(s, i) == SubSeq(s, i, i)

\* JavaScript truthiness of a string (undefined and "" are both falsy)
Truthy(s) == s # ""

\* JavaScript undefined for optional string fields and for numbers
Undefined == ""
NoNumber == 0

USERNAME_MIN_LENGTH == 8
PASSWORD_MIN_LENGTH == 8

(***************************************************************************)
(* validation.ts                                                           *)
(***************************************************************************)
\* /^[a-zA-Z0-9_]+$/
MatchesWord(s) == /\ Len(s) >= 1
                  /\ \A i \in 1..Len(s) : CharAt(s, i) \in Lower \cup Upper \cup Digit \cup {"_"}

validateUsername_NoCharset(username) ==
  IF ~Truthy(username) THEN FALSE
  ELSE Len(username) >= USERNAME_MIN_LENGTH

validateUsername(username) ==
  IF ~Truthy(username) THEN FALSE
  ELSE IF Len(username) < USERNAME_MIN_LENGTH THEN FALSE
  ELSE MatchesWord(username)

HasChar(s, class) == \E i \in 1..Len(s) : CharAt(s, i) \in class
HasSymbol(s) == \E i \in 1..Len(s) : CharAt(s, i) \notin Lower \cup Upper \cup Digit

validatePassword(password, strict) ==
  IF ~Truthy(password) THEN FALSE
  ELSE IF Len(password) < PASSWORD_MIN_LENGTH THEN FALSE
  ELSE IF strict
       THEN /\ HasChar(password, Upper)
            /\ HasChar(password, Lower)
            /\ HasChar(password, Digit)
            /\ HasSymbol(password)
       ELSE TRUE

\* A JavaScript number argument: NaN or an integer value.
NaN == [nan |-> TRUE, val |-> 0]
Num(v) == [nan |-> FALSE, val |-> v]

validateAmount_AllowZero(amount) ==
  IF amount.nan THEN FALSE
  ELSE amount.val >= 0

validateAmount(amount) ==
  IF amount.nan THEN FALSE
  ELSE IF amount.val <= 0 THEN FALSE
  ELSE TRUE

(***************************************************************************)
(* errors.ts                                                               *)
(***************************************************************************)
NoValue == [t |-> "void"]

\* new PipeApiError(message, status?, code?): code defaults to UNKNOWN
PipeApiError(status, code) ==
  [kind |-> "error", name |-> "PipeApiError", status |-> status,
   code |-> IF code = Undefined THEN "UNKNOWN" ELSE code, value |-> NoValue]

PipeValidationError ==
  [kind |-> "error", name |-> "PipeValidationError", status |-> NoNumber,
   code |-> Undefined, value |-> NoValue]

\* errors.ts 99-104; no code path of the client constructs it
PipeSessionError ==
  [kind |-> "error", name |-> "PipeSessionError", status |-> NoNumber,
   code |-> Undefined, value |-> NoValue]

Ok(v) == [kind |-> "ok", name |-> Undefined, status |-> NoNumber,
          code |-> Undefined, value |-> v]

NoOutcome == [kind |-> "none", name |-> Undefined, status |-> NoNumber,
              code |-> Undefined, value |-> NoValue]

(***************************************************************************)
(* HTTP transport (axios): a response with a 2xx status resolves the       *)
(* request, any other status rejects it with error.response.status set,    *)
(* and a transport failure rejects it with no response at all.             *)
(***************************************************************************)
NoResponse == NoNumber
Pending == NoNumber - 1
Resolves(st) == st >= 200 /\ st < 300

NoData == [access_token |-> Undefined, refresh_token |-> Undefined,
           expires_in |-> 0, user_id |-> Undefined, user_app_key |-> Undefined,
           balance_sol |-> NoNumber, public_key |-> Undefined, ui_amount |-> NoNumber]

Request(ep, hdrs, body) ==
  [ep |-> ep, hdrs |-> hdrs, body |-> body, status |-> Pending, data |-> NoData]

Last(log) == log[Len(log)]

\* the log of a call once its pending request has been answered
Answered(log, st, data) ==
  [log EXCEPT ![Len(log)] = [@ EXCEPT !.status = st, !.data = data]]

\* Token material of the n-th successful answer of the auth service
AccessToken(n) == "at" \o ToString(n)
RefreshToken(n) == "rt" \o ToString(n)

TokenData(n, withRefresh, expiresIn) ==
  [NoData EXCEPT !.access_token = AccessToken(n),
                 !.refresh_token = IF withRefresh THEN RefreshToken(n) ELSE Undefined,
                 !.expires_in = expiresIn]

ExpiresIn == 1..MaxExpiresIn

\* Statuses the remote service answers with (NoResponse: transport failure).
\* A service profile is the set of statuses the environment may use.
AuthStatuses == {200, 204, 401, NoResponse}
FullService == {200, 202, 204, 401, 402, 404, 409, 500, NoResponse}
PlainService == {200, 401, 404}

(***************************************************************************)
(* storage.ts: what a localStorage item holds.  getItem returns null for   *)
(* a missing key and the stored string otherwise; a string is the JSON     *)
(* text of an object ("object"), of a list ("array"), the text null        *)
(* ("jsonnull"), the empty string ("empty") or text that JSON.parse        *)
(* rejects ("garbage").                                                    *)
(***************************************************************************)
NoAccount == [username |-> Undefined, password |-> Undefined, userId |-> Undefined,
              userAppKey |-> Undefined, accessToken |-> Undefined,
              refreshToken |-> Undefined, tokenExpiry |-> NoNumber]

Date(ms) == <<"Date", ms>>
toISOString(d) == <<"iso", d[2]>>
NewDate(text) == <<"Date", text[2]>>

NoFileRecord == [fileId |-> Undefined, fileName |-> Undefined, size |-> NoNumber,
                 uploadedAt |-> Date(NoNumber), blake3Hash |-> Undefined]

\* JSON.stringify of a FileRecord list: a Date becomes its ISO string
stringifyFiles(files) ==
  [i \in 1..Len(files) |-> [files[i] EXCEPT !.uploadedAt = toISOString(@)]]

\* lines 10-11: the keys of the two wrappers
STORAGE_KEY == "firestarter_pipe_account"
FILES_STORAGE_KEY == "firestarter_file_records"

forAccount_ByUserId(acc) == "firestarter_files_" \o acc.userId

\* lines 164-167: the key of the manifest scoped to an account
forAccount(acc) == "firestarter_files_" \o acc.username

\* JSON.stringify of a PipeAccount: every field becomes a JSON string, the
\* tokenExpiry a JSON number
stringifyAccount(acc) ==
  [k \in DOMAIN acc |-> IF k = "tokenExpiry" THEN <<"number", acc[k]>>
                                              ELSE <<"string", acc[k]>>]

parseAccount_NoExpiry(text) ==
  [k \in DOMAIN text |-> IF k = "tokenExpiry" THEN NoNumber ELSE text[k][2]]

\* JSON.parse of that text
parseAccount(text) == [k \in DOMAIN text |-> text[k][2]]

\* the items of the two wrappers
NullAccountItem == [form |-> "null", value |-> stringifyAccount(NoAccount)]
AccountItem(acc) == [form |-> "object", value |-> stringifyAccount(acc)]
ForeignItems ==
  { [form |-> f, value |-> stringifyAccount(NoAccount)] :
      f \in {"garbage", "empty", "jsonnull"} }
NullFilesItem == [form |-> "null", value |-> << >>]
FilesItem(files) == [form |-> "array", value |-> stringifyFiles(files)]

\* what a call on a wrapper did: returned or threw, whether its write
\* reached the medium, the record it returned, the entries it dropped
NoRet == [op |-> "none", key |-> Undefined, kind |-> "none", name |-> Undefined,
          wrote |-> FALSE, isNull |-> FALSE, acc |-> NoAccount,
          arg |-> NoFileRecord, dropped |-> << >>]
Returned(o) == [NoRet EXCEPT !.op = o, !.kind = "ok"]
Threw(o, errorName) == [NoRet EXCEPT !.op = o, !.kind = "error", !.name = errorName]

(***************************************************************************)
(* State                                                                   *)
(***************************************************************************)
VARIABLES
  account,      \* the shared PipeAccount record handed to every operation
  now,          \* Date.now() in milliseconds
  issued,       \* number of token sets the auth service has issued
  calls,        \* number of logical calls started so far
  pc,           \* per call: where the call is suspended
  op,           \* per call: the PipeClient method running
  args,         \* per call: its arguments
  authHeaders,  \* per call: the headers getAuthHeaders returned
  reqs,         \* per call: the requests it issued, with their answers
  outcome,      \* per call: what the caller gets back
  remote,       \* the files the remote service holds, by file name
  localStorage, \* the items of the page's localStorage, by key
  ret           \* what the last call on a storage wrapper did

clientVars == <<account, now, issued, calls, pc, op, args, authHeaders, reqs,
                outcome>>
storeVars == <<localStorage, ret>>
vars == <<clientVars, remote, storeVars>>

\* expires_in is in seconds, Date.now() in milliseconds (lines 92, 166, 600, 623)
MsPerSecond == 1000
StartTime == MsPerSecond
TickMs == MsPerSecond
SENTINEL == "jwt-based"

NoArgs == [username |-> "", password |-> "", strict |-> FALSE, fileName |-> "",
           file |-> "", linkHash |-> "", amount |-> Num(0)]
NoHeaders == {}

\* Account records a caller can hand to the client: as returned by
\* createAccount / login (tokens present), restored from an older session
\* (token expired or missing), or built by hand (no password, legacy key
\* or sentinel key).
InitAccounts ==
  { [username |-> "alice_01", password |-> pw, userId |-> "uid1",
     userAppKey |-> key, accessToken |-> tk[1], refreshToken |-> rt,
     tokenExpiry |-> tk[2]] :
      pw \in {"passw0rd", ""},
      key \in {"appkey1", SENTINEL, ""},
      rt \in {"rt0", Undefined},
      tk \in {<<"at0", StartTime + TickMs>>, <<"at0", StartTime>>,
              <<Undefined, NoNumber>>} }

\* the accounts whose manifests share the page's localStorage: two records
\* of one username (a second login of the same user) and another user
ScopeAccounts ==
  { [NoAccount EXCEPT !.username = "alice_01", !.userId = "uid1"],
    [NoAccount EXCEPT !.username = "alice_01", !.userId = "alice_01"],
    [NoAccount EXCEPT !.username = "bob_0002", !.userId = "uid1"] }

\* the keys in use: the credential slot, the global manifest and the
\* manifests of the accounts
StorageKeys ==
  {STORAGE_KEY, FILES_STORAGE_KEY} \cup { forAccount(acc) : acc \in ScopeAccounts }

Init ==
  /\ account \in InitAccounts
  /\ now = StartTime
  /\ issued = 0
  /\ calls = 0
  /\ pc = [p \in Procs |-> "idle"]
  /\ op = [p \in Procs |-> "none"]
  /\ args = [p \in Procs |-> NoArgs]
  /\ authHeaders = [p \in Procs |-> NoHeaders]
  /\ reqs = [p \in Procs |-> << >>]
  /\ outcome = [p \in Procs |-> NoOutcome]
  /\ remote = {}
  /\ localStorage = [key \in StorageKeys |->
                       IF key = STORAGE_KEY THEN NullAccountItem ELSE NullFilesItem]
  /\ ret = NoRet

(***************************************************************************)
(* getAuthHeaders (client.ts 578-641)                                      *)
(***************************************************************************)
BearerHeaders(token) == { <<"Authorization", "Bearer " \o token>> }

LegacyHeaders(acc) == { <<"X-User-Id", acc.userId>>,
                        <<"X-User-App-Key", acc.userAppKey>> }

IsTokenValid_Reversed(acc, t) ==
  /\ Truthy(acc.accessToken)
  /\ acc.tokenExpiry # NoNumber
  /\ t > acc.tokenExpiry

\* line 582: account.accessToken && account.tokenExpiry && Date.now() < tokenExpiry
IsTokenValid(acc, t) ==
  /\ Truthy(acc.accessToken)
  /\ acc.tokenExpiry # NoNumber
  /\ t < acc.tokenExpiry

HasRefreshToken_Always(acc) == TRUE

\* line 588
HasRefreshToken(acc) == Truthy(acc.refreshToken)

\* line 611
HasLoginCredentials(acc) == Truthy(acc.username) /\ Truthy(acc.password)

HasLegacyKey_AllowSentinel(acc) == Truthy(acc.userAppKey)

\* line 634
HasLegacyKey(acc) == Truthy(acc.userAppKey) /\ acc.userAppKey # SENTINEL

ApplyRefresh_StaleExpiry(acc, tokens, t) ==
  [acc EXCEPT !.accessToken = tokens.access_token,
              !.refreshToken = IF Truthy(tokens.refresh_token)
                               THEN tokens.refresh_token ELSE acc.refreshToken]

ApplyRefresh_DropRefreshToken(acc, tokens, t) ==
  [acc EXCEPT !.accessToken = tokens.access_token,
              !.refreshToken = tokens.refresh_token,
              !.tokenExpiry = t + tokens.expires_in * MsPerSecond]

ApplyRefresh_KeepAccessToken(acc, tokens, t) ==
  [acc EXCEPT !.refreshToken = IF Truthy(tokens.refresh_token)
                               THEN tokens.refresh_token ELSE acc.refreshToken,
              !.tokenExpiry = t + tokens.expires_in * MsPerSecond]

\* lines 598-600
ApplyRefresh(acc, tokens, t) ==
  [acc EXCEPT !.accessToken = tokens.access_token,
              !.refreshToken = IF Truthy(tokens.refresh_token)
                               THEN tokens.refresh_token ELSE acc.refreshToken,
              !.tokenExpiry = t + tokens.expires_in * MsPerSecond]

ApplyLogin_KeepRefreshToken(acc, tokens, t) ==
  [acc EXCEPT !.accessToken = tokens.access_token,
              !.tokenExpiry = t + tokens.expires_in * MsPerSecond]

ApplyLogin_StaleExpiry(acc, tokens, t) ==
  [acc EXCEPT !.accessToken = tokens.access_token,
              !.refreshToken = tokens.refresh_token]

\* lines 621-623
ApplyLogin(acc, tokens, t) ==
  [acc EXCEPT !.accessToken = tokens.access_token,
              !.refreshToken = tokens.refresh_token,
              !.tokenExpiry = t + tokens.expires_in * MsPerSecond]

\* lines 629 and 640: what getAuthHeaders throws
AuthFailure == PipeApiError(401, Undefined)

\* getAuthHeaders returns hdrs: the awaiting operation resumes with them
ReturnHeaders(p, hdrs) ==
  /\ authHeaders' = [authHeaders EXCEPT ![p] = hdrs]
  /\ pc' = [pc EXCEPT ![p] = "headers"]
  /\ UNCHANGED outcome

\* getAuthHeaders throws: every operation awaits it outside its try block,
\* so the error reaches the caller as it is
ThrowFromAuth(p, err) ==
  /\ outcome' = [outcome EXCEPT ![p] = err]
  /\ pc' = [pc EXCEPT ![p] = "done"]
  /\ UNCHANGED authHeaders

LegacyStage_SendFirst(p, log) ==
  /\ reqs' = [reqs EXCEPT ![p] = Append(log, Request("/checkWallet", NoHeaders, {}))]
  /\ IF HasLegacyKey(account)
     THEN ReturnHeaders(p, LegacyHeaders(account))
     ELSE ThrowFromAuth(p, AuthFailure)

\* lines 633-640
LegacyStage(p, log) ==
  /\ reqs' = [reqs EXCEPT ![p] = log]
  /\ IF HasLegacyKey(account)
     THEN ReturnHeaders(p, LegacyHeaders(account))
     ELSE ThrowFromAuth(p, AuthFailure)

LoginStage_Skipped(p, log) == LegacyStage(p, log)

\* lines 610-617
LoginStage(p, log) ==
  IF HasLoginCredentials(account)
  THEN /\ reqs' = [reqs EXCEPT ![p] = Append(log,
                     Request("/auth/login", NoHeaders,
                             { <<"username", account.username>>,
                               <<"password", account.password>> }))]
       /\ pc' = [pc EXCEPT ![p] = "auth_login"]
       /\ UNCHANGED <<authHeaders, outcome>>
  ELSE LegacyStage(p, log)

RefreshStage_LoginFirst(p, log) == LoginStage(p, log)

\* lines 587-592
RefreshStage(p, log) ==
  IF HasRefreshToken(account)
  THEN /\ reqs' = [reqs EXCEPT ![p] = Append(log,
                     Request("/auth/refresh", NoHeaders,
                             { <<"refresh_token", account.refreshToken>> }))]
       /\ pc' = [pc EXCEPT ![p] = "auth_refresh"]
       /\ UNCHANGED <<authHeaders, outcome>>
  ELSE LoginStage(p, log)

\* lines 579-592: getAuthHeaders up to its first await
getAuthHeaders(p) ==
  IF IsTokenValid(account, now)
  THEN /\ ReturnHeaders(p, BearerHeaders(account.accessToken))
       /\ reqs' = [reqs EXCEPT ![p] = << >>]
  ELSE RefreshStage(p, << >>)

\* The auth service answers with a fresh token set only while the bound on
\* issued token sets allows it.
AuthAnswers(svc) ==
  { <<st, d>> \in (AuthStatuses \cap svc) \X
        ({NoData} \cup { TokenData(issued + 1, wr, e) :
                           wr \in BOOLEAN, e \in ExpiresIn }) :
      /\ (st = 200) => (d # NoData /\ issued < MaxIssued)
      /\ (st # 200) => d = NoData }

\* lines 594-608: the answer to /auth/refresh
RefreshResponse(p, svc) ==
  /\ pc[p] = "auth_refresh"
  /\ \E ans \in AuthAnswers(svc) :
       LET st == ans[1]
           tokens == ans[2]
           log == Answered(reqs[p], st, tokens)
       IN IF st = 200
          THEN /\ account' = ApplyRefresh(account, tokens, now)
               /\ issued' = issued + 1
               /\ reqs' = [reqs EXCEPT ![p] = log]
               /\ ReturnHeaders(p, BearerHeaders(tokens.access_token))
          ELSE /\ LoginStage(p, log)
               /\ UNCHANGED <<account, issued>>
  /\ UNCHANGED <<now, calls, op, args>>

\* lines 618-631: the answer to /auth/login
LoginResponse(p, svc) ==
  /\ pc[p] = "auth_login"
  /\ \E ans \in AuthAnswers(svc) :
       LET st == ans[1]
           tokens == ans[2]
           log == Answered(reqs[p], st, tokens)
       IN IF st = 200
          THEN /\ account' = ApplyLogin(account, tokens, now)
               /\ issued' = issued + 1
               /\ reqs' = [reqs EXCEPT ![p] = log]
               /\ ReturnHeaders(p, BearerHeaders(tokens.access_token))
          ELSE IF Resolves(st)
          THEN /\ LegacyStage(p, log)
               /\ UNCHANGED <<account, issued>>
          ELSE /\ reqs' = [reqs EXCEPT ![p] = log]
               /\ ThrowFromAuth(p, AuthFailure)
               /\ UNCHANGED <<account, issued>>
  /\ UNCHANGED <<now, calls, op, args>>


(***************************************************************************)
(* The operations of PipeClient                                            *)
(***************************************************************************)
\* the two hash implementations, as injective functions of the bytes
blake3(data) == "blake3:" \o data
sha256(data) == "sha256:" \o data

AuthOps == {"getBalance", "uploadFile", "downloadFile", "deleteFile",
            "createPublicLink", "deletePublicLink", "exchangeSolForPipe"}

Usernames == {"", "abc", "alice_01", "alice-01"}
Passwords == {"", "pw", "passw0rd"}
FileNames == {"a.txt", "b.txt"}
Payloads == {"hi", "yo"}
LinkHashes == {"lh1"}
Amounts == {NaN, Num(-1), Num(0), Num(1)}

\* what the remote service can answer on each endpoint
StatusesOf(ep) ==
  {200, 204, 500, NoResponse} \cup
  CASE ep \in {"/users", "/auth/set-password"} -> {409}
    [] ep \in {"/auth/login", "/checkWallet"} -> {401}
    [] ep = "/upload" -> {202, 401, 402}
    [] ep = "/exchangeSolForTokens" -> {402}
    [] OTHER -> {404}

\* error.response?.status of the error that reaches an operation's catch
\* block: a rejected request carries the status of the answer (none for a
\* transport failure); an error thrown inside the try block after a
\* resolved request has no response at all
CaughtStatus(st) == IF Resolves(st) THEN NoNumber ELSE st

\* the status checks after a resolved request (lines 66, 79, 129, 277, 352,
\* 389, 482, 516); getBalance, createPublicLink and exchangeSolForPipe
\* have none
Accepts(o, st) ==
  CASE o \in {"getBalance", "createPublicLink", "exchangeSolForPipe"} -> Resolves(st)
    [] o = "uploadFile" -> st = 200 \/ st = 202
    [] OTHER -> st = 200

createAccountCatch_No409(st) == PipeApiError(st, "UNKNOWN")

\* catch block of createAccount, lines 94-107
createAccountCatch(st) ==
  IF st = 409 THEN PipeApiError(409, "USERNAME_EXISTS")
  ELSE PipeApiError(st, "UNKNOWN")

\* catch block of login, lines 168-181
loginCatch(st) ==
  IF st = 401 THEN PipeApiError(401, "INVALID_CREDENTIALS")
  ELSE PipeApiError(st, "UNKNOWN")

getBalanceCatch_Rethrow(st) ==
  [kind |-> "error", name |-> "AxiosError", status |-> st,
   code |-> Undefined, value |-> NoValue]

getBalanceCatch_Zero(st) ==
  Ok([t |-> "balance", sol |-> 0, pipe |-> 0, publicKey |-> ""])

\* catch block of getBalance, lines 222-227
getBalanceCatch(st) == PipeApiError(st, Undefined)

\* catch block of uploadFile, lines 291-311
uploadFileCatch(st) ==
  IF st = 402 THEN PipeApiError(402, "INSUFFICIENT_BALANCE")
  ELSE IF st = 401 THEN PipeApiError(401, "UNAUTHORIZED")
  ELSE PipeApiError(st, "UPLOAD_FAILED")

\* catch block of downloadFile, lines 357-362
downloadFileCatch(st) == PipeApiError(st, Undefined)

\* catch block of deleteFile, lines 392-405
deleteFileCatch(st) ==
  IF st = 404 THEN PipeApiError(404, "FILE_NOT_FOUND")
  ELSE PipeApiError(st, "DELETE_FAILED")

\* catch block of createPublicLink, lines 446-459
createPublicLinkCatch(st) ==
  IF st = 404 THEN PipeApiError(404, "FILE_NOT_FOUND")
  ELSE PipeApiError(st, "UNKNOWN")

\* catch block of deletePublicLink, lines 488-501
deletePublicLinkCatch(st) ==
  IF st = 404 THEN PipeApiError(404, "FILE_NOT_FOUND")
  ELSE PipeApiError(st, "UNKNOWN")

\* catch block of publicDownload, lines 521-534
publicDownloadCatch(st) ==
  IF st = 404 THEN PipeApiError(404, "FILE_NOT_FOUND")
  ELSE PipeApiError(st, "DOWNLOAD_FAILED")

\* catch block of exchangeSolForPipe, lines 558-571
exchangeSolForPipeCatch(st) ==
  IF st = 402 THEN PipeApiError(402, "INSUFFICIENT_SOL")
  ELSE PipeApiError(st, "UNKNOWN")

Catch(o, st) ==
  CASE o = "createAccount" -> createAccountCatch(st)
    [] o = "login" -> loginCatch(st)
    [] o = "getBalance" -> getBalanceCatch(st)
    [] o = "uploadFile" -> uploadFileCatch(st)
    [] o = "downloadFile" -> downloadFileCatch(st)
    [] o = "deleteFile" -> deleteFileCatch(st)
    [] o = "createPublicLink" -> createPublicLinkCatch(st)
    [] o = "deletePublicLink" -> deletePublicLinkCatch(st)
    [] o = "publicDownload" -> publicDownloadCatch(st)
    [] o = "exchangeSolForPipe" -> exchangeSolForPipeCatch(st)

\* endpoint and body of the request an authenticated operation sends
Endpoint(o) ==
  CASE o = "getBalance" -> "/checkWallet"
    [] o = "uploadFile" -> "/upload"
    [] o = "downloadFile" -> "/download-stream"
    [] o = "deleteFile" -> "/deleteFile"
    [] o = "createPublicLink" -> "/createPublicLink"
    [] o = "deletePublicLink" -> "/deletePublicLink"
    [] o = "exchangeSolForPipe" -> "/exchangeSolForTokens"

FileNameParam_Resolved(fileName) ==
  IF fileName \in FileNames THEN fileName
  ELSE CHOOSE name \in FileNames : \A other \in FileNames : Len(name) <= Len(other)

\* line 344: downloadUrl.searchParams.append('file_name', fileName)
FileNameParam(fileName) == fileName

Body(o, a, acc) ==
  CASE o = "uploadFile" -> { <<"file_name", a.fileName>>, <<"data", a.file>> }
    [] o = "downloadFile" -> { <<"file_name", FileNameParam(a.fileName)>> }
    [] o \in {"deleteFile", "createPublicLink"} ->
         { <<"user_id", acc.userId>>, <<"user_app_key", acc.userAppKey>>,
           <<"file_name", a.fileName>> }
    [] o = "deletePublicLink" ->
         { <<"user_id", acc.userId>>, <<"user_app_key", acc.userAppKey>>,
           <<"link_hash", a.linkHash>> }
    [] OTHER -> {}

\* a logical call starts: the caller invokes method o with arguments a
Begin(p, o, a) ==
  /\ pc[p] = "idle"
  /\ calls < MaxCalls
  /\ calls' = calls + 1
  /\ op' = [op EXCEPT ![p] = o]
  /\ args' = [args EXCEPT ![p] = a]
  /\ UNCHANGED <<account, now, issued>>

\* a validation helper threw before the first await
ThrowValidation(p) ==
  /\ outcome' = [outcome EXCEPT ![p] = PipeValidationError]
  /\ pc' = [pc EXCEPT ![p] = "done"]
  /\ UNCHANGED <<authHeaders, reqs>>

\* the operation's first request goes out (operations without account)
FirstRequest(p, req, label) ==
  /\ reqs' = [reqs EXCEPT ![p] = <<req>>]
  /\ pc' = [pc EXCEPT ![p] = label]
  /\ UNCHANGED <<authHeaders, outcome>>

\* the operation ends and hands res to the caller
Finish(p, log, res) ==
  /\ reqs' = [reqs EXCEPT ![p] = log]
  /\ outcome' = [outcome EXCEPT ![p] = res]
  /\ pc' = [pc EXCEPT ![p] = "done"]

\* lines 190-191, 245, 340, 373, 421, 470: the operation awaits
\* getAuthHeaders first
getBalance(p) == Begin(p, "getBalance", NoArgs) /\ getAuthHeaders(p)

uploadFile(p) ==
  \E f \in FileNames, d \in Payloads :
    /\ Begin(p, "uploadFile", [NoArgs EXCEPT !.fileName = f, !.file = d])
    /\ getAuthHeaders(p)

downloadFile(p) ==
  \E f \in FileNames :
    Begin(p, "downloadFile", [NoArgs EXCEPT !.fileName = f]) /\ getAuthHeaders(p)

\* downloadFile called with the identifier an upload returned
downloadById(p) ==
  \E d \in Payloads : \E id \in {blake3(d), sha256(d)} :
    Begin(p, "downloadFile", [NoArgs EXCEPT !.fileName = id]) /\ getAuthHeaders(p)

deleteFile(p) ==
  \E f \in FileNames :
    Begin(p, "deleteFile", [NoArgs EXCEPT !.fileName = f]) /\ getAuthHeaders(p)

createPublicLink(p) ==
  \E f \in FileNames :
    Begin(p, "createPublicLink", [NoArgs EXCEPT !.fileName = f]) /\ getAuthHeaders(p)

deletePublicLink(p) ==
  \E h \in LinkHashes :
    Begin(p, "deletePublicLink", [NoArgs EXCEPT !.linkHash = h]) /\ getAuthHeaders(p)

\* lines 544-547
exchangeSolForPipe(p) ==
  \E amt \in Amounts :
    /\ Begin(p, "exchangeSolForPipe", [NoArgs EXCEPT !.amount = amt])
    /\ IF validateAmount(amt) THEN getAuthHeaders(p) ELSE ThrowValidation(p)

\* the operation resumes with the headers and sends its own request
SendRequest(p) ==
  /\ pc[p] = "headers"
  /\ reqs' = [reqs EXCEPT ![p] = Append(@,
                Request(Endpoint(op[p]), authHeaders[p], Body(op[p], args[p], account)))]
  /\ pc' = [pc EXCEPT ![p] = "request"]
  /\ UNCHANGED <<account, now, issued, calls, op, args, authHeaders, outcome>>

ReportFailure_Retry(p, log, st) ==
  IF st = 401 /\ Len(log) < 2
  THEN /\ reqs' = [reqs EXCEPT ![p] = Append(log,
                     Request(Endpoint(op[p]), authHeaders[p], Body(op[p], args[p], account)))]
       /\ pc' = [pc EXCEPT ![p] = "request"]
       /\ UNCHANGED outcome
  ELSE Finish(p, log, Catch(op[p], CaughtStatus(st)))

\* the catch block of the operation: the failure goes to the caller, the
\* request is not sent again and no credential step is run
ReportFailure(p, log, st) == Finish(p, log, Catch(op[p], CaughtStatus(st)))

\* what the operation does with the answer st to its request; bytes is the
\* body of the answer to a download
HandleResponse(p, st, bytes) ==
       LET \* /checkWallet answers 200 with the wallet, other statuses carry no body
           data == IF op[p] = "getBalance" /\ st = 200
                   THEN [NoData EXCEPT !.balance_sol = 5, !.public_key = "pk1"]
                   ELSE NoData
           log == Answered(reqs[p], st, data)
       IN IF Resolves(st) /\ Accepts(op[p], st)
          THEN CASE op[p] = "getBalance" ->
                      \* lines 201-210: the PIPE balance query
                      /\ reqs' = [reqs EXCEPT ![p] = Append(log,
                                    Request("/checkCustomToken", authHeaders[p], {}))]
                      /\ pc' = [pc EXCEPT ![p] = "token_balance"]
                      /\ UNCHANGED outcome
                 [] op[p] = "uploadFile" ->
                      \* line 282: await calculateBlake3Hash(data)
                      /\ reqs' = [reqs EXCEPT ![p] = log]
                      /\ pc' = [pc EXCEPT ![p] = "hashing"]
                      /\ UNCHANGED outcome
                 [] op[p] = "downloadFile" ->
                      \* line 356: new Uint8Array(response.data)
                      Finish(p, log, Ok([t |-> "bytes", data |-> bytes]))
                 [] OTHER -> Finish(p, log, Ok(NoValue))
          ELSE ReportFailure(p, log, st)

\* the answer to the request of an authenticated operation
Response(p, svc) ==
  /\ pc[p] = "request"
  /\ \E st \in StatusesOf(Endpoint(op[p])) \cap svc :
       \E bytes \in (IF op[p] = "downloadFile" /\ st = 200
                     THEN Payloads ELSE {Undefined}) :
         HandleResponse(p, st, bytes)
  /\ UNCHANGED <<account, now, issued, calls, op, args, authHeaders>>

\* the value a request carries under a name
Field(req, name) == (CHOOSE pr \in req.body : pr[1] = name)[2]

\* The remote service as section 6 of the specification describes it:
\* /upload stores the bytes under the file_name of the request, and
\* /download-stream answers with the bytes stored under the file_name of
\* the request, or with 404 when no upload used that name.
NameKeyedResponse(p) ==
  /\ pc[p] = "request"
  /\ op[p] \in {"uploadFile", "downloadFile"}
  /\ LET req == Last(reqs[p])
         name == Field(req, "file_name")
         held == { pr \in remote : pr[1] = name }
     IN IF op[p] = "uploadFile"
        THEN /\ remote' = (remote \ held) \cup { <<name, Field(req, "data")>> }
             /\ HandleResponse(p, 200, Undefined)
        ELSE /\ UNCHANGED remote
             /\ IF held # {}
                THEN HandleResponse(p, 200, (CHOOSE pr \in held : TRUE)[2])
                ELSE HandleResponse(p, 404, Undefined)
  /\ UNCHANGED <<account, now, issued, calls, op, args, authHeaders, storeVars>>

\* lines 210-227: the answer to /checkCustomToken (200 carries ui_amount);
\* a failure degrades to 0, an absent field reads as 0 or ''
TokenBalanceResponse(p, svc) ==
  /\ pc[p] = "token_balance"
  /\ \E st \in StatusesOf("/checkCustomToken") \cap svc :
       LET walletResponse == reqs[p][Len(reqs[p]) - 1]
           tokenData == IF st = 200 THEN [NoData EXCEPT !.ui_amount = 7] ELSE NoData
           pipeBalance == IF Resolves(st) THEN tokenData.ui_amount ELSE 0
       IN Finish(p, Answered(reqs[p], st, tokenData),
                 Ok([t |-> "balance", sol |-> walletResponse.data.balance_sol,
                     pipe |-> pipeBalance,
                     publicKey |-> walletResponse.data.public_key]))
  /\ UNCHANGED <<account, now, issued, calls, op, args, authHeaders>>

\* which of the dynamically imported hash modules can be loaded
HashModules == {{"blake3", "sha256"}, {"sha256"}, {}}

\* lines 281-290 and 646-662: the identifier of the uploaded bytes
calculateBlake3Hash(p) ==
  /\ pc[p] = "hashing"
  /\ \E loadable \in HashModules :
       LET data == args[p].file
           result(h) == Ok([t |-> "upload", fileId |-> h, fileName |-> args[p].fileName,
                            size |-> Len(data), blake3Hash |-> h,
                            uploadedAt |-> Date(now)])
       IN IF "blake3" \in loadable THEN Finish(p, reqs[p], result(blake3(data)))
          ELSE IF "sha256" \in loadable THEN Finish(p, reqs[p], result(sha256(data)))
          ELSE Finish(p, reqs[p], Catch("uploadFile", NoNumber))
  /\ UNCHANGED <<account, now, issued, calls, op, args, authHeaders>>

\* answers of an endpoint that hands out tokens
TokenAnswers(ep) ==
  { <<st, d>> \in StatusesOf(ep) \X
        ({NoData} \cup { TokenData(issued + 1, wr, e) :
                           wr \in BOOLEAN, e \in ExpiresIn }) :
      /\ (st = 200) => (d # NoData /\ issued < MaxIssued)
      /\ (st # 200) => d = NoData }

NewAccount_NoExpiry(username, password, userId, userAppKey, tokens, t) ==
  [username |-> username, password |-> password, userId |-> userId,
   userAppKey |-> userAppKey, accessToken |-> tokens.access_token,
   refreshToken |-> tokens.refresh_token, tokenExpiry |-> NoNumber]

NewAccount_NoRefresh(username, password, userId, userAppKey, tokens, t) ==
  [username |-> username, password |-> password, userId |-> userId,
   userAppKey |-> userAppKey, accessToken |-> tokens.access_token,
   refreshToken |-> Undefined,
   tokenExpiry |-> t + tokens.expires_in * MsPerSecond]

\* the record createAccount (lines 85-93) and login (lines 159-167) return
NewAccount(username, password, userId, userAppKey, tokens, t) ==
  [username |-> username, password |-> password, userId |-> userId,
   userAppKey |-> userAppKey, accessToken |-> tokens.access_token,
   refreshToken |-> tokens.refresh_token,
   tokenExpiry |-> t + tokens.expires_in * MsPerSecond]

AccountValue(acc) == [t |-> "account", account |-> acc]

\* lines 57-64
createAccount(p) ==
  \E u \in Usernames, pw \in Passwords :
    /\ Begin(p, "createAccount", [NoArgs EXCEPT !.username = u, !.password = pw])
    /\ IF validateUsername(u) /\ validatePassword(pw, FALSE)
       THEN FirstRequest(p, Request("/users", NoHeaders, { <<"username", u>> }), "users")
       ELSE ThrowValidation(p)

UsersResponse_Unchecked(p) ==
  /\ pc[p] = "users"
  /\ \E st \in StatusesOf("/users") :
       LET userData == IF st = 200
                       THEN [NoData EXCEPT !.user_id = "uid2", !.user_app_key = "appkey2"]
                       ELSE NoData
           log == Answered(reqs[p], st, userData)
       IN /\ reqs' = [reqs EXCEPT ![p] = Append(log,
                            Request("/auth/set-password", NoHeaders,
                                    { <<"user_id", userData.user_id>>,
                                      <<"user_app_key", userData.user_app_key>>,
                                      <<"new_password", args[p].password>> }))]
          /\ pc' = [pc EXCEPT ![p] = "set_password"]
          /\ UNCHANGED outcome
  /\ UNCHANGED <<account, now, issued, calls, op, args, authHeaders>>

\* lines 66-77: the answer to /users
UsersResponse(p) ==
  /\ pc[p] = "users"
  /\ \E st \in StatusesOf("/users") :
       LET userData == IF st = 200
                       THEN [NoData EXCEPT !.user_id = "uid2", !.user_app_key = "appkey2"]
                       ELSE NoData
           log == Answered(reqs[p], st, userData)
       IN IF st = 200
          THEN /\ reqs' = [reqs EXCEPT ![p] = Append(log,
                            Request("/auth/set-password", NoHeaders,
                                    { <<"user_id", userData.user_id>>,
                                      <<"user_app_key", userData.user_app_key>>,
                                      <<"new_password", args[p].password>> }))]
               /\ pc' = [pc EXCEPT ![p] = "set_password"]
               /\ UNCHANGED outcome
          ELSE Finish(p, log, Catch("createAccount", CaughtStatus(st)))
  /\ UNCHANGED <<account, now, issued, calls, op, args, authHeaders>>

\* lines 79-93: the answer to /auth/set-password
SetPasswordResponse(p) ==
  /\ pc[p] = "set_password"
  /\ \E ans \in TokenAnswers("/auth/set-password") :
       LET st == ans[1]
           tokens == ans[2]
           userData == reqs[p][1].data
           log == Answered(reqs[p], st, tokens)
       IN IF st = 200
          THEN /\ Finish(p, log, Ok(AccountValue(
                        NewAccount(args[p].username, args[p].password,
                                   userData.user_id, userData.user_app_key,
                                   tokens, now))))
               /\ issued' = issued + 1
          ELSE /\ Finish(p, log, Catch("createAccount", CaughtStatus(st)))
               /\ UNCHANGED issued
  /\ UNCHANGED <<account, now, calls, op, args, authHeaders>>

\* lines 117-127
login(p) ==
  \E u \in Usernames, pw \in Passwords :
    /\ Begin(p, "login", [NoArgs EXCEPT !.username = u, !.password = pw])
    /\ IF ~Truthy(u) \/ ~Truthy(pw)
       THEN ThrowValidation(p)
       ELSE FirstRequest(p, Request("/auth/login", NoHeaders,
                                    { <<"username", u>>, <<"password", pw>> }), "login")

\* lines 129-149: the answer to the /auth/login request of login
LoginAnswer(p) ==
  /\ pc[p] = "login"
  /\ \E ans \in TokenAnswers("/auth/login") :
       LET st == ans[1]
           tokens == ans[2]
           log == Answered(reqs[p], st, tokens)
       IN IF st = 200
          THEN /\ reqs' = [reqs EXCEPT ![p] = Append(log,
                            Request("/checkWallet", BearerHeaders(tokens.access_token), {}))]
               /\ pc' = [pc EXCEPT ![p] = "login_wallet"]
               /\ issued' = issued + 1
               /\ UNCHANGED outcome
          ELSE /\ Finish(p, log, Catch("login", CaughtStatus(st)))
               /\ UNCHANGED issued
  /\ UNCHANGED <<account, now, calls, op, args, authHeaders>>

\* lines 151-167: the answer to the /checkWallet request of login
WalletAnswer(p) ==
  /\ pc[p] = "login_wallet"
  /\ \E st \in StatusesOf("/checkWallet"), uid \in {"uid7", Undefined} :
       LET tokens == reqs[p][1].data
           \* only a 200 answer has a body
           walletData == IF st = 200 THEN [NoData EXCEPT !.user_id = uid] ELSE NoData
           actualUserId == IF st = 200 /\ Truthy(walletData.user_id)
                           THEN walletData.user_id ELSE args[p].username
       IN /\ (st # 200) => uid = Undefined
          /\ Finish(p, Answered(reqs[p], st, walletData),
                    Ok(AccountValue(
                        NewAccount(args[p].username, args[p].password, actualUserId,
                                   tokens.access_token, tokens, now))))
  /\ UNCHANGED <<account, now, issued, calls, op, args, authHeaders>>

\* lines 510-514
publicDownload(p) ==
  \E h \in LinkHashes :
    /\ Begin(p, "publicDownload", [NoArgs EXCEPT !.linkHash = h])
    /\ FirstRequest(p, Request("/public/" \o h, NoHeaders, {}), "public")

\* lines 516-534: the answer to /public/{hash}
PublicAnswer(p) ==
  /\ pc[p] = "public"
  /\ \E st \in StatusesOf("/public") :
       IF Resolves(st) /\ Accepts("publicDownload", st)
       THEN Finish(p, Answered(reqs[p], st, NoData), Ok(NoValue))
       ELSE Finish(p, Answered(reqs[p], st, NoData),
                   Catch("publicDownload", CaughtStatus(st)))
  /\ UNCHANGED <<account, now, issued, calls, op, args, authHeaders>>

\* the caller has received the outcome; the call's frame is gone
ClearFrame(p) ==
  /\ pc' = [pc EXCEPT ![p] = "idle"]
  /\ op' = [op EXCEPT ![p] = "none"]
  /\ args' = [args EXCEPT ![p] = NoArgs]
  /\ authHeaders' = [authHeaders EXCEPT ![p] = NoHeaders]
  /\ reqs' = [reqs EXCEPT ![p] = << >>]
  /\ outcome' = [outcome EXCEPT ![p] = NoOutcome]

Return(p) ==
  /\ pc[p] = "done"
  /\ ClearFrame(p)
  /\ UNCHANGED <<account, now, issued, calls>>

\* the caller keeps the record createAccount / login returned and hands it
\* to its later calls
UseReturnedAccount(p) ==
  /\ pc[p] = "done"
  /\ outcome[p].kind = "ok"
  /\ outcome[p].value.t = "account"
  /\ \A q \in Procs \ {p} : pc[q] = "idle"
  /\ account' = outcome[p].value.account
  /\ ClearFrame(p)
  /\ UNCHANGED <<now, issued, calls>>

\* time passes
Tick ==
  /\ now < StartTime + MaxTicks * TickMs
  /\ now' = now + TickMs
  /\ UNCHANGED <<account, issued, calls, pc, op, args, authHeaders, reqs, outcome>>

(***************************************************************************)
(* storage.ts: PipeAccountStorage and PipeFileStorage.  Every method runs  *)
(* to completion in one step.  setItem and removeItem fail when the medium *)
(* rejects the write (quota exceeded, storage disabled).  The actions     *)
(* constrain localStorage and ret; a specification adds what else stays.   *)
(***************************************************************************)
\* the error setItem throws; save rethrows it as it is (line 55)
MediumError == "DOMException"

\* the item of PipeAccountStorage (getItem(STORAGE_KEY))
slot == localStorage[STORAGE_KEY]

\* a setItem / removeItem the medium accepts
setItem(key, item) == localStorage' = [localStorage EXCEPT ![key] = item]

\* lines 50-57
save(fails) ==
  /\ IF fails
     THEN /\ ret' = Threw("save", MediumError)
          /\ UNCHANGED localStorage
     ELSE /\ setItem(STORAGE_KEY, AccountItem(account))
          /\ ret' = [Returned("save") EXCEPT !.wrote = TRUE]

\* lines 98-100
hasAccount == slot.form # "null"

\* line 71: the fields load checks
RequiredFieldsPresent(acc) ==
  Truthy(acc.username) /\ Truthy(acc.password) /\ Truthy(acc.userId)

\* lines 87-93: removeItem inside a try whose catch only logs
AccountStorage_clear(fails) ==
  /\ IF fails THEN UNCHANGED localStorage ELSE setItem(STORAGE_KEY, NullAccountItem)
  /\ ret' = [Returned("clear") EXCEPT !.wrote = ~fails]

load_Live(fails) ==
  /\ IF slot.form # "object"
     THEN ret' = [Returned("load") EXCEPT !.isNull = TRUE]
     ELSE ret' = [Returned("load") EXCEPT !.acc = account]
  /\ UNCHANGED localStorage

\* lines 63-82
load(fails) ==
  /\ IF slot.form \in {"null", "empty"}
     THEN \* line 66: !data
          /\ ret' = [Returned("load") EXCEPT !.isNull = TRUE]
          /\ UNCHANGED localStorage
     ELSE IF slot.form \in {"garbage", "jsonnull"}
     THEN \* JSON.parse throws, or account.username is read from null:
          \* the catch at lines 78-81 returns null
          /\ ret' = [Returned("load") EXCEPT !.isNull = TRUE]
          /\ UNCHANGED localStorage
     ELSE IF ~RequiredFieldsPresent(parseAccount(slot.value))
     THEN \* lines 71-75: this.clear(), return null
          /\ IF fails THEN UNCHANGED localStorage
                      ELSE setItem(STORAGE_KEY, NullAccountItem)
          /\ ret' = [Returned("load") EXCEPT !.isNull = TRUE, !.wrote = ~fails]
     ELSE /\ ret' = [Returned("load") EXCEPT !.acc = parseAccount(slot.value)]
          /\ UNCHANGED localStorage

\* another script of the page writes the item
ForeignWrite ==
  /\ \E item \in ForeignItems : setItem(STORAGE_KEY, item)
  /\ ret' = [NoRet EXCEPT !.op = "foreign"]

\* the records a caller tracks
FileIds == {"f1", "f2", "f3", "f4"}
Sizes == {1, 2}
FileRecords ==
  { [fileId |-> id, fileName |-> "a.txt", size |-> sz,
     uploadedAt |-> Date(StartTime), blake3Hash |-> id] :
      id \in FileIds, sz \in Sizes }

\* lines 200-216: the parsed list of the instance with this storageKey,
\* with the dates rebuilt
listFiles(storageKey) ==
  IF localStorage[storageKey].form # "array" THEN << >>
  ELSE [i \in 1..Len(localStorage[storageKey].value) |->
          [localStorage[storageKey].value[i] EXCEPT !.uploadedAt = NewDate(@)]]

findIndex_Never(files, fileId) == -1

\* Array.prototype.findIndex on fileId: the 0-based index, -1 when absent
findIndex(files, fileId) ==
  IF \E i \in 1..Len(files) : files[i].fileId = fileId
  THEN (CHOOSE i \in 1..Len(files) :
          /\ files[i].fileId = fileId
          /\ \A j \in 1..(i - 1) : files[j].fileId # fileId) - 1
  ELSE -1

unshift_Append(files, file) == files \o <<file>>

unshift(files, file) == <<file>> \o files

splice_Keep(files, start) == files

\* files.splice(start): what stays in the list
splice(files, start) == SubSeq(files, 1, start)

\* lines 221-224
getFile(storageKey, fileId) ==
  LET index == findIndex(listFiles(storageKey), fileId)
  IN IF index >= 0 THEN listFiles(storageKey)[index + 1] ELSE NoFileRecord

\* lines 253-255
count(storageKey) == Len(listFiles(storageKey))

addFileList_Overwrite(files, file) == <<file>>

\* lines 174-189: the list addFile writes
addFileList(files, file) ==
  LET existingIndex == findIndex(files, file.fileId)
  IN IF existingIndex >= 0
     THEN [files EXCEPT ![existingIndex + 1] = file]
     ELSE IF Len(unshift(files, file)) > MaxFiles
          THEN splice(unshift(files, file), MaxFiles)
          ELSE unshift(files, file)

\* lines 172-195: a failed setItem is caught and logged
addFile(storageKey, file, fails) ==
  LET files == addFileList(listFiles(storageKey), file)
      kept == { files[i] : i \in 1..Len(files) }
  IN /\ IF fails THEN UNCHANGED localStorage
                 ELSE setItem(storageKey, FilesItem(files))
     /\ ret' = [Returned("addFile") EXCEPT
                  !.key = storageKey, !.wrote = ~fails, !.arg = file,
                  !.dropped = IF fails THEN << >>
                              ELSE SelectSeq(listFiles(storageKey),
                                     LAMBDA f : f \notin kept /\ f.fileId # file.fileId)]

removeFile_Head(storageKey, fileId, fails) ==
  LET filtered == IF listFiles(storageKey) = << >> THEN << >>
                  ELSE Tail(listFiles(storageKey))
  IN /\ IF fails THEN UNCHANGED localStorage
                 ELSE setItem(storageKey, FilesItem(filtered))
     /\ ret' = [Returned("removeFile") EXCEPT
                  !.key = storageKey, !.wrote = ~fails,
                  !.arg = [NoFileRecord EXCEPT !.fileId = fileId]]

\* lines 229-237: a failed setItem is caught and logged
removeFile(storageKey, fileId, fails) ==
  LET filtered == SelectSeq(listFiles(storageKey), LAMBDA f : f.fileId # fileId)
  IN /\ IF fails THEN UNCHANGED localStorage
                 ELSE setItem(storageKey, FilesItem(filtered))
     /\ ret' = [Returned("removeFile") EXCEPT
                  !.key = storageKey, !.wrote = ~fails,
                  !.arg = [NoFileRecord EXCEPT !.fileId = fileId]]

\* lines 242-248
FileStorage_clear(storageKey, fails) ==
  /\ IF fails THEN UNCHANGED localStorage ELSE setItem(storageKey, NullFilesItem)
  /\ ret' = [Returned("clearFiles") EXCEPT !.key = storageKey, !.wrote = ~fails]

\* README "Track uploads" and the example at storage.ts 156-158: the caller
\* hands the UploadResult it received to addFile of its account's manifest
\* and keeps the result
TrackUpload(p) ==
  /\ pc[p] = "done"
  /\ outcome[p].kind = "ok"
  /\ outcome[p].value.t = "upload"
  /\ LET result == outcome[p].value
     IN addFile(forAccount(account),
                [fileId |-> result.fileId, fileName |-> result.fileName,
                 size |-> result.size, uploadedAt |-> result.uploadedAt,
                 blake3Hash |-> result.blake3Hash],
                FALSE)
  /\ pc' = [pc EXCEPT ![p] = "tracked"]
  /\ UNCHANGED <<account, now, issued, calls, op, args, authHeaders, reqs, outcome,
                 remote>>

\* the strings and numbers a caller hands to the exported validators
ValidatorInputs ==
  [username |-> {"", "abcdefg", "abcdefgh", "abc_EF12", "abcdefg-", "abcdefg h",
                 "________", "alice_01_long", "12345678"},
   password |-> {"", "Aa1!aaa", "aaaaaaaa", "Aa1!aaaa", "Aa1aaaaa", "AA1!AAAA",
                 "aa1!aaaa", "Aa!aaaaa", "Aa1_aaaa", "Aa1 aaaaaaaa"},
   amount   |-> Amounts \cup {Num(2)}]

\* validation.ts 22-130: a call of validateUsername, validatePassword or
\* validateAmount returns a ValidationResult
Validate(p) ==
  /\ \/ \E u \in ValidatorInputs.username :
          /\ Begin(p, "validateUsername", [NoArgs EXCEPT !.username = u])
          /\ Finish(p, << >>, Ok([t |-> "validation", valid |-> validateUsername(u)]))
     \/ \E pw \in ValidatorInputs.password, strict \in BOOLEAN :
          /\ Begin(p, "validatePassword", [NoArgs EXCEPT !.password = pw, !.strict = strict])
          /\ Finish(p, << >>, Ok([t |-> "validation", valid |-> validatePassword(pw, strict)]))
     \/ \E amt \in ValidatorInputs.amount :
          /\ Begin(p, "validateAmount", [NoArgs EXCEPT !.amount = amt])
          /\ Finish(p, << >>, Ok([t |-> "validation", valid |-> validateAmount(amt)]))
  /\ UNCHANGED authHeaders

\* validation.ts 137-167: a call of assertValidUsername, assertValidPassword
\* or assertValidAmount returns nothing or throws PipeValidationError
AssertValid(p) ==
  /\ \/ \E u \in ValidatorInputs.username :
          /\ Begin(p, "assertValidUsername", [NoArgs EXCEPT !.username = u])
          /\ Finish(p, << >>, IF validateUsername(u) THEN Ok(NoValue)
                                                     ELSE PipeValidationError)
     \/ \E pw \in ValidatorInputs.password, strict \in BOOLEAN :
          /\ Begin(p, "assertValidPassword", [NoArgs EXCEPT !.password = pw, !.strict = strict])
          /\ Finish(p, << >>, IF validatePassword(pw, strict) THEN Ok(NoValue)
                                                               ELSE PipeValidationError)
     \/ \E amt \in ValidatorInputs.amount :
          /\ Begin(p, "assertValidAmount", [NoArgs EXCEPT !.amount = amt])
          /\ Finish(p, << >>, IF validateAmount(amt) THEN Ok(NoValue)
                                                      ELSE PipeValidationError)
  /\ UNCHANGED authHeaders

(***************************************************************************)
(* Spec: one caller issuing the operations of the client one after the     *)
(* other, against a service that may answer with any status.               *)
(* SpecConc: two logical calls in flight on the same account, against a    *)
(* service that answers 200, 401 or 404.                                   *)
(***************************************************************************)
Caller == CHOOSE p \in Procs : \A q \in Procs : p <= q

Next ==
  \/ createAccount(Caller) /\ UNCHANGED <<remote, storeVars>>
  \/ UsersResponse(Caller) /\ UNCHANGED <<remote, storeVars>>
  \/ SetPasswordResponse(Caller) /\ UNCHANGED <<remote, storeVars>>
  \/ login(Caller) /\ UNCHANGED <<remote, storeVars>>
  \/ LoginAnswer(Caller) /\ UNCHANGED <<remote, storeVars>>
  \/ WalletAnswer(Caller) /\ UNCHANGED <<remote, storeVars>>
  \/ publicDownload(Caller) /\ UNCHANGED <<remote, storeVars>>
  \/ PublicAnswer(Caller) /\ UNCHANGED <<remote, storeVars>>
  \/ getBalance(Caller) /\ UNCHANGED <<remote, storeVars>>
  \/ uploadFile(Caller) /\ UNCHANGED <<remote, storeVars>>
  \/ downloadFile(Caller) /\ UNCHANGED <<remote, storeVars>>
  \/ deleteFile(Caller) /\ UNCHANGED <<remote, storeVars>>
  \/ createPublicLink(Caller) /\ UNCHANGED <<remote, storeVars>>
  \/ deletePublicLink(Caller) /\ UNCHANGED <<remote, storeVars>>
  \/ exchangeSolForPipe(Caller) /\ UNCHANGED <<remote, storeVars>>
  \/ RefreshResponse(Caller, FullService) /\ UNCHANGED <<remote, storeVars>>
  \/ LoginResponse(Caller, FullService) /\ UNCHANGED <<remote, storeVars>>
  \/ SendRequest(Caller) /\ UNCHANGED <<remote, storeVars>>
  \/ Response(Caller, FullService) /\ UNCHANGED <<remote, storeVars>>
  \/ TokenBalanceResponse(Caller, FullService) /\ UNCHANGED <<remote, storeVars>>
  \/ calculateBlake3Hash(Caller) /\ UNCHANGED <<remote, storeVars>>
  \/ Return(Caller) /\ UNCHANGED <<remote, storeVars>>
  \/ UseReturnedAccount(Caller) /\ UNCHANGED <<remote, storeVars>>
  \/ Tick /\ UNCHANGED <<remote, storeVars>>

Spec == Init /\ [][Next]_vars

\* Accounts with stored login credentials and a legacy key or the sentinel
InitConc == Init /\ Truthy(account.password) /\ Truthy(account.userAppKey)

NextConc ==
  \/ \E p \in Procs : getBalance(p) /\ UNCHANGED <<remote, storeVars>>
  \/ \E p \in Procs : deleteFile(p) /\ UNCHANGED <<remote, storeVars>>
  \/ \E p \in Procs : RefreshResponse(p, PlainService) /\ UNCHANGED <<remote, storeVars>>
  \/ \E p \in Procs : LoginResponse(p, PlainService) /\ UNCHANGED <<remote, storeVars>>
  \/ \E p \in Procs : SendRequest(p) /\ UNCHANGED <<remote, storeVars>>
  \/ \E p \in Procs : Response(p, PlainService) /\ UNCHANGED <<remote, storeVars>>
  \/ \E p \in Procs : TokenBalanceResponse(p, PlainService) /\ UNCHANGED <<remote, storeVars>>
  \/ Tick /\ UNCHANGED <<remote, storeVars>>

SpecConc == InitConc /\ [][NextConc]_vars

(***************************************************************************)
(* SpecStore: a caller using the two storage wrappers on one credential    *)
(* slot and one manifest scope, on a medium that may reject any write.     *)
(* SpecFiles: one caller uploading and downloading with an unexpired token *)
(* against the name-keyed remote service.                                  *)
(***************************************************************************)
InitStore ==
  /\ Init
  /\ IsTokenValid(account, now)
  /\ Truthy(account.password) /\ Truthy(account.refreshToken)
  /\ account.userAppKey # SENTINEL

NextStore ==
  \/ \E fails \in BOOLEAN : save(fails) /\ UNCHANGED <<clientVars, remote>>
  \/ \E fails \in BOOLEAN : load(fails) /\ UNCHANGED <<clientVars, remote>>
  \/ \E fails \in BOOLEAN : AccountStorage_clear(fails) /\ UNCHANGED <<clientVars, remote>>
  \/ ForeignWrite /\ UNCHANGED <<clientVars, remote>>
  \/ \E file \in FileRecords, fails \in BOOLEAN :
       addFile(FILES_STORAGE_KEY, file, fails) /\ UNCHANGED <<clientVars, remote>>
  \/ \E fileId \in FileIds, fails \in BOOLEAN :
       removeFile(FILES_STORAGE_KEY, fileId, fails) /\ UNCHANGED <<clientVars, remote>>
  \/ \E fails \in BOOLEAN :
       FileStorage_clear(FILES_STORAGE_KEY, fails) /\ UNCHANGED <<clientVars, remote>>

SpecStore == InitStore /\ [][NextStore]_vars

InitFiles ==
  /\ Init
  /\ IsTokenValid(account, now)
  /\ Truthy(account.password) /\ Truthy(account.refreshToken)

NextFiles ==
  \/ uploadFile(Caller) /\ UNCHANGED <<remote, storeVars>>
  \/ downloadFile(Caller) /\ UNCHANGED <<remote, storeVars>>
  \/ downloadById(Caller) /\ UNCHANGED <<remote, storeVars>>
  \/ SendRequest(Caller) /\ UNCHANGED <<remote, storeVars>>
  \/ NameKeyedResponse(Caller)
  \/ calculateBlake3Hash(Caller) /\ UNCHANGED <<remote, storeVars>>
  \/ Return(Caller) /\ UNCHANGED <<remote, storeVars>>

SpecFiles == InitFiles /\ [][NextFiles]_vars

(***************************************************************************)
(* SpecScopes: the manifests of several accounts, the global manifest and  *)
(* the credential slot in one localStorage.                                *)
(* SpecTrack: two uploads in flight on one account, each tracked in the    *)
(* account's manifest when it returns, on a medium that accepts the        *)
(* writes.                                                                 *)
(* SpecValidate: a caller applying the exported validators.                *)
(* SpecHeader: one caller of an authenticated operation; the HTTP client   *)
(* settles every request (a response, or the timeout of line 31), so an    *)
(* awaited answer eventually arrives.                                      *)
(***************************************************************************)
ScopeRecords == { r \in FileRecords : r.fileId \in {"f1", "f2"} /\ r.size = 1 }

NextScopes ==
  \/ \E fails \in BOOLEAN : save(fails) /\ UNCHANGED <<clientVars, remote>>
  \/ \E acc \in ScopeAccounts, file \in ScopeRecords, fails \in BOOLEAN :
       addFile(forAccount(acc), file, fails) /\ UNCHANGED <<clientVars, remote>>
  \/ \E acc \in ScopeAccounts, file \in ScopeRecords, fails \in BOOLEAN :
       removeFile(forAccount(acc), file.fileId, fails) /\ UNCHANGED <<clientVars, remote>>
  \/ \E acc \in ScopeAccounts, fails \in BOOLEAN :
       FileStorage_clear(forAccount(acc), fails) /\ UNCHANGED <<clientVars, remote>>
  \/ \E file \in ScopeRecords :
       addFile(FILES_STORAGE_KEY, file, FALSE) /\ UNCHANGED <<clientVars, remote>>

SpecScopes == InitStore /\ [][NextScopes]_vars

NextTrack ==
  \/ \E p \in Procs : uploadFile(p) /\ UNCHANGED <<remote, storeVars>>
  \/ \E p \in Procs : SendRequest(p) /\ UNCHANGED <<remote, storeVars>>
  \/ \E p \in Procs : Response(p, PlainService) /\ UNCHANGED <<remote, storeVars>>
  \/ \E p \in Procs : calculateBlake3Hash(p) /\ UNCHANGED <<remote, storeVars>>
  \/ \E p \in Procs : TrackUpload(p)
  \/ \E p \in Procs : Return(p) /\ UNCHANGED <<remote, storeVars>>

SpecTrack == InitStore /\ [][NextTrack]_vars

NextValidate ==
  \/ Validate(Caller) /\ UNCHANGED <<remote, storeVars>>
  \/ AssertValid(Caller) /\ UNCHANGED <<remote, storeVars>>
  \/ Return(Caller) /\ UNCHANGED <<remote, storeVars>>

SpecValidate == InitStore /\ [][NextValidate]_vars

NextHeader ==
  \/ getBalance(Caller) /\ UNCHANGED <<remote, storeVars>>
  \/ RefreshResponse(Caller, FullService) /\ UNCHANGED <<remote, storeVars>>
  \/ LoginResponse(Caller, FullService) /\ UNCHANGED <<remote, storeVars>>
  \/ SendRequest(Caller) /\ UNCHANGED <<remote, storeVars>>
  \/ Response(Caller, PlainService) /\ UNCHANGED <<remote, storeVars>>
  \/ TokenBalanceResponse(Caller, PlainService) /\ UNCHANGED <<remote, storeVars>>
  \/ Return(Caller) /\ UNCHANGED <<remote, storeVars>>
  \/ Tick /\ UNCHANGED <<remote, storeVars>>

\* SpecPersist: a caller that saves its account and tracks a file, then
\* runs authenticated operations that refresh the account, and loads
NextPersist ==
  \/ save(FALSE) /\ UNCHANGED <<clientVars, remote>>
  \/ load(FALSE) /\ UNCHANGED <<clientVars, remote>>
  \/ \E file \in ScopeRecords :
       addFile(forAccount(account), file, FALSE) /\ UNCHANGED <<clientVars, remote>>
  \/ uploadFile(Caller) /\ UNCHANGED <<remote, storeVars>>
  \/ deleteFile(Caller) /\ UNCHANGED <<remote, storeVars>>
  \/ RefreshResponse(Caller, PlainService) /\ UNCHANGED <<remote, storeVars>>
  \/ LoginResponse(Caller, PlainService) /\ UNCHANGED <<remote, storeVars>>
  \/ SendRequest(Caller) /\ UNCHANGED <<remote, storeVars>>
  \/ Response(Caller, PlainService) /\ UNCHANGED <<remote, storeVars>>
  \/ calculateBlake3Hash(Caller) /\ UNCHANGED <<remote, storeVars>>
  \/ Return(Caller) /\ UNCHANGED <<remote, storeVars>>
  \/ Tick /\ UNCHANGED <<remote, storeVars>>

SpecPersist == InitStore /\ [][NextPersist]_vars

SpecHeader ==
  /\ Init
  /\ [][NextHeader]_vars
  /\ WF_vars(RefreshResponse(Caller, FullService) /\ UNCHANGED <<remote, storeVars>>)
  /\ WF_vars(LoginResponse(Caller, FullService) /\ UNCHANGED <<remote, storeVars>>)

(***************************************************************************)
(* Properties                                                              *)
(***************************************************************************)
\* call p has just been started by this step and runs getAuthHeaders
Starts(p) == pc[p] = "idle" /\ pc'[p] # "idle"

StartsAuthenticated(p) ==
  /\ Starts(p)
  /\ op'[p] \in AuthOps
  /\ ~(pc'[p] = "done" /\ outcome'[p].name = "PipeValidationError")

\* this step delivered the answer to the pending request of call p
Answers(p, ep) ==
  /\ Len(reqs[p]) > 0
  /\ Last(reqs[p]).ep = ep
  /\ Last(reqs[p]).status = Pending
  /\ Len(reqs'[p]) >= Len(reqs[p])
  /\ reqs'[p][Len(reqs[p])].status # Pending

AnswerOf(p) == reqs'[p][Len(reqs[p])]

Bearer(token) == { <<"Authorization", "Bearer " \o token>> }

CountEp(log, ep) == Cardinality({ i \in 1..Len(log) : log[i].ep = ep })

\* C1: with an access token present and tokenExpiry later than the current
\* time, getAuthHeaders returns exactly Authorization: Bearer <accessToken>,
\* issues no /auth/refresh and no /auth/login call, and leaves the account
\* record unchanged.
C1_ValidTokenNoNetwork ==
  [][\A p \in Procs :
       (StartsAuthenticated(p) /\ account.accessToken # "" /\ now < account.tokenExpiry)
       => /\ pc'[p] = "headers"
          /\ authHeaders'[p] = Bearer(account.accessToken)
          /\ reqs'[p] = << >>
          /\ account' = account]_vars

C1_Witness ==
  \E p \in Procs :
    /\ pc[p] = "headers"
    /\ reqs[p] = << >>
    /\ account.accessToken # "" /\ now < account.tokenExpiry
    /\ authHeaders[p] = Bearer(account.accessToken)

\* C2: a header request on an account with now >= tokenExpiry and a refresh
\* token the service accepts makes exactly one /auth/refresh call and no
\* /auth/login call; when the bearer header is returned the account already
\* holds the refreshed accessToken, refreshToken and tokenExpiry, and the
\* bearer token is the new account.accessToken.
C2_RefreshUpdatesBeforeReturn ==
  [][\A p \in Procs :
       /\ (StartsAuthenticated(p) /\ now >= account.tokenExpiry
           /\ account.refreshToken # "")
          => /\ pc'[p] = "auth_refresh"
             /\ Len(reqs'[p]) = 1
             /\ reqs'[p][1].ep = "/auth/refresh"
             /\ reqs'[p][1].body = { <<"refresh_token", account.refreshToken>> }
       /\ (Answers(p, "/auth/refresh") /\ AnswerOf(p).status = 200)
          => LET tokens == AnswerOf(p).data
             IN /\ pc'[p] = "headers"
                /\ CountEp(reqs'[p], "/auth/refresh") = 1
                /\ CountEp(reqs'[p], "/auth/login") = 0
                /\ account'.accessToken = tokens.access_token
                /\ account'.refreshToken =
                     (IF tokens.refresh_token # "" THEN tokens.refresh_token
                      ELSE account.refreshToken)
                /\ account'.tokenExpiry = now + tokens.expires_in * 1000
                /\ authHeaders'[p] = Bearer(account'.accessToken)]_vars

C2_Witness ==
  \E p \in Procs :
    /\ pc[p] = "headers"
    /\ Len(reqs[p]) = 1
    /\ reqs[p][1].ep = "/auth/refresh"
    /\ reqs[p][1].status = 200
    /\ account.accessToken = reqs[p][1].data.access_token
    /\ account.tokenExpiry > now
    /\ authHeaders[p] = Bearer(account.accessToken)

\* C3: concurrent operations on an account whose token is expired share one
\* refresh attempt: at most one /auth/refresh call and at most one
\* /auth/login call for the account is under way at any time.
C3_SingleFlight ==
  Cardinality({ p \in Procs : pc[p] \in {"auth_refresh", "auth_login"} }) <= 1

\* C4: a failed refresh attempt (transport error, rejection, or an answer
\* other than 200) is not reported to the caller; one /auth/login with the
\* account's stored username and password is attempted, and if it succeeds
\* the account's accessToken, refreshToken and tokenExpiry are overwritten
\* from the login response and a bearer header with the new access token is
\* returned.
C4_RefreshFailureFallsBackToLogin ==
  [][\A p \in Procs :
       /\ (Answers(p, "/auth/refresh") /\ AnswerOf(p).status # 200
           /\ account.username # "" /\ account.password # "")
          => /\ pc'[p] = "auth_login"
             /\ outcome'[p] = NoOutcome
             /\ account' = account
             /\ Len(reqs'[p]) = 2
             /\ reqs'[p][2].ep = "/auth/login"
             /\ reqs'[p][2].body = { <<"username", account.username>>,
                                     <<"password", account.password>> }
       /\ (Answers(p, "/auth/login") /\ op[p] \in AuthOps /\ AnswerOf(p).status = 200)
          => LET tokens == AnswerOf(p).data
             IN /\ pc'[p] = "headers"
                /\ outcome'[p] = NoOutcome
                /\ CountEp(reqs'[p], "/auth/login") = 1
                /\ account'.accessToken = tokens.access_token
                /\ account'.refreshToken = tokens.refresh_token
                /\ account'.tokenExpiry = now + tokens.expires_in * 1000
                /\ authHeaders'[p] = Bearer(tokens.access_token)]_vars

C4_Witness ==
  \E p \in Procs :
    /\ pc[p] = "headers"
    /\ Len(reqs[p]) = 2
    /\ reqs[p][1].ep = "/auth/refresh"
    /\ reqs[p][1].status \in {401, NoResponse}
    /\ reqs[p][2].ep = "/auth/login"
    /\ reqs[p][2].status = 200
    /\ account.accessToken = reqs[p][2].data.access_token
    /\ authHeaders[p] = Bearer(account.accessToken)

\* C5: when the re-login attempt of a header request fails and
\* account.userAppKey is present and not the sentinel, the header request
\* does not fail: it returns the X-User-Id / X-User-App-Key pair.
C5_LegacyAfterFailedLogin ==
  \A p \in Procs :
    (/\ op[p] \in AuthOps
     /\ Len(reqs[p]) > 0
     /\ Last(reqs[p]).ep = "/auth/login"
     /\ Last(reqs[p]).status \notin {200, Pending}
     /\ account.userAppKey # "" /\ account.userAppKey # "jwt-based")
    => /\ pc[p] = "headers"
       /\ outcome[p] = NoOutcome
       /\ authHeaders[p] = { <<"X-User-Id", account.userId>>,
                             <<"X-User-App-Key", account.userAppKey>> }

\* C6: when no credential path succeeds for an authenticated operation, it
\* fails with an error of the AuthorizationError kind (PipeSessionError),
\* which is a different kind from ApiError (PipeApiError).
C6_AuthorizationErrorKind ==
  \A p \in Procs :
    (/\ op[p] \in AuthOps
     /\ pc[p] = "done"
     /\ outcome[p].name # "PipeValidationError"
     /\ \A i \in 1..Len(reqs[p]) : reqs[p][i].ep \in {"/auth/refresh", "/auth/login"})
    => /\ outcome[p].kind = "error"
       /\ outcome[p].name = "PipeSessionError"
       /\ outcome[p].name # "PipeApiError"

\* C7: for an account with an expired access token, no refresh token and a
\* username/password the service accepts, getBalance issues no /auth/refresh
\* call, issues exactly one /auth/login call before its first /checkWallet
\* request, sends that request with the token obtained from the login, and
\* succeeds (the service answering /checkWallet).
C7_ReloginBeforeBalance ==
  /\ [][\A p \in Procs :
          (/\ Starts(p) /\ op'[p] = "getBalance"
           /\ now >= account.tokenExpiry /\ account.refreshToken = ""
           /\ account.username # "" /\ account.password # "")
          => /\ pc'[p] = "auth_login"
             /\ reqs'[p] = << Request("/auth/login", {},
                                      { <<"username", account.username>>,
                                        <<"password", account.password>> }) >>]_vars
  /\ [](\A p \in Procs :
          (/\ op[p] = "getBalance" /\ Len(reqs[p]) >= 1
           /\ reqs[p][1].ep = "/auth/login" /\ reqs[p][1].status = 200)
          => LET log == reqs[p]
                 token == log[1].data.access_token
             IN /\ CountEp(log, "/auth/refresh") = 0
                /\ CountEp(log, "/auth/login") = 1
                /\ \A i \in 1..Len(log) :
                     log[i].ep = "/checkWallet" => i = 2 /\ log[i].hdrs = Bearer(token)
                /\ pc[p] \in {"request", "token_balance", "done"}
                     => Len(log) >= 2 /\ log[2].ep = "/checkWallet"
                /\ (pc[p] = "done" /\ Resolves(log[2].status))
                     => outcome[p].kind = "ok")

C7_Witness ==
  \E p \in Procs :
    /\ op[p] = "getBalance" /\ pc[p] = "done" /\ outcome[p].kind = "ok"
    /\ Len(reqs[p]) = 3
    /\ reqs[p][1].ep = "/auth/login" /\ reqs[p][1].status = 200
    /\ reqs[p][2].ep = "/checkWallet"
    /\ reqs[p][2].hdrs = Bearer(reqs[p][1].data.access_token)

\* the input rules the operations are documented to enforce
UsernameOk(u) ==
  /\ Len(u) >= 8
  /\ \A i \in 1..Len(u) : CharAt(u, i) \in Lower \cup Upper \cup Digit \cup {"_"}
PasswordOk(pw) == Len(pw) >= 8
AmountOk(a) == ~a.nan /\ a.val > 0

\* C8: createAccount with a username or password that fails validation, and
\* exchangeSolForPipe with an amount that is not a number greater than 0,
\* fail with a ValidationError, issue no network request in that call and
\* leave the account record unchanged.
C8_ValidationBeforeNetwork ==
  [][\A p \in Procs :
       (/\ Starts(p)
        /\ \/ /\ op'[p] = "createAccount"
              /\ ~(UsernameOk(args'[p].username) /\ PasswordOk(args'[p].password))
           \/ /\ op'[p] = "exchangeSolForPipe"
              /\ ~AmountOk(args'[p].amount))
       => /\ pc'[p] = "done"
          /\ outcome'[p].kind = "error"
          /\ outcome'[p].name = "PipeValidationError"
          /\ reqs'[p] = << >>
          /\ account' = account
          /\ issued' = issued]_vars

C8_Witness ==
  \E p \in Procs :
    /\ op[p] = "exchangeSolForPipe" /\ args[p].amount = Num(-1)
    /\ pc[p] = "done" /\ outcome[p].name = "PipeValidationError"
    /\ reqs[p] = << >>

\* C9: login called with a malformed username or password (empty, or not
\* satisfying the username/password rules) fails with a ValidationError and
\* never issues the /auth/login request.
C9_LoginValidatesInputs ==
  \A p \in Procs :
    (/\ op[p] = "login"
     /\ ~(UsernameOk(args[p].username) /\ PasswordOk(args[p].password)))
    => /\ reqs[p] = << >>
       /\ pc[p] = "done"
       /\ outcome[p].name = "PipeValidationError"

\* call p is over and the last answer it received was status st on ep
EndedOn(p, o, ep, st) ==
  /\ op[p] = o /\ pc[p] = "done" /\ Len(reqs[p]) > 0
  /\ Last(reqs[p]).ep = ep /\ Last(reqs[p]).status = st

IsApiError(res, st, code) ==
  /\ res.kind = "error" /\ res.name = "PipeApiError"
  /\ res.status = st /\ res.code = code

\* C10: a 409 answer to createAccount yields status 409 with code
\* USERNAME_EXISTS, a 401 answer to login INVALID_CREDENTIALS, a 402 answer
\* to uploadFile INSUFFICIENT_BALANCE, a 404 answer to deleteFile
\* FILE_NOT_FOUND and a 402 answer to exchangeSolForPipe INSUFFICIENT_SOL;
\* the error's status is the status the service returned.
C10_StatusMapping ==
  \A p \in Procs :
    /\ (EndedOn(p, "createAccount", "/users", 409)
        \/ EndedOn(p, "createAccount", "/auth/set-password", 409))
       => IsApiError(outcome[p], 409, "USERNAME_EXISTS")
    /\ EndedOn(p, "login", "/auth/login", 401)
       => IsApiError(outcome[p], 401, "INVALID_CREDENTIALS")
    /\ EndedOn(p, "uploadFile", "/upload", 402)
       => IsApiError(outcome[p], 402, "INSUFFICIENT_BALANCE")
    /\ EndedOn(p, "deleteFile", "/deleteFile", 404)
       => IsApiError(outcome[p], 404, "FILE_NOT_FOUND")
    /\ EndedOn(p, "exchangeSolForPipe", "/exchangeSolForTokens", 402)
       => IsApiError(outcome[p], 402, "INSUFFICIENT_SOL")

C10_Witness ==
  \E p \in Procs :
    /\ EndedOn(p, "createAccount", "/users", 409)
    /\ IsApiError(outcome[p], 409, "USERNAME_EXISTS")

\* the requests an operation sends on its own behalf (the calls of the
\* credential chain and the two tolerated secondary queries are not among
\* them)
OwnEndpoints(o) ==
  CASE o = "createAccount" -> {"/users", "/auth/set-password"}
    [] o = "login" -> {"/auth/login"}
    [] o = "publicDownload" -> { "/public/" \o h : h \in LinkHashes }
    [] o \in AuthOps -> {Endpoint(o)}
    [] OTHER -> {}

\* the statuses with a sub-code of their own, per operation
SpecificStatuses(o) ==
  CASE o = "createAccount" -> {409}
    [] o = "login" -> {401}
    [] o = "uploadFile" -> {401, 402}
    [] o = "exchangeSolForPipe" -> {402}
    [] o \in {"deleteFile", "createPublicLink", "deletePublicLink",
              "publicDownload"} -> {404}
    [] OTHER -> {}

\* call p is over and the last thing it received was the answer st to one
\* of its own requests
EndedOnOwn(p, st) ==
  /\ pc[p] = "done" /\ Len(reqs[p]) > 0
  /\ Last(reqs[p]).ep \in OwnEndpoints(op[p])
  /\ Last(reqs[p]).status = st

\* C11: when the service answers an operation's request with a status that
\* has no specific mapping for the operation, a success-class status the
\* operation does not accept included, the operation fails with a
\* PipeApiError whose status is the raw status the service returned.
C11_UnmappedStatusKeepsRawStatus ==
  \A p \in Procs : \A st \in FullService \ {NoResponse} :
    (/\ EndedOnOwn(p, st)
     /\ st \notin SpecificStatuses(op[p])
     /\ ~Accepts(op[p], st))
    => /\ outcome[p].kind = "error"
       /\ outcome[p].name = "PipeApiError"
       /\ outcome[p].status = st

\* the error classes of errors.ts
Taxonomy == {"PipeApiError", "PipeValidationError", "PipeSessionError",
             "PipeStorageError"}

\* C12: every operation, for every outcome of its network calls, either
\* returns its success value or fails with one error of the taxonomy; no
\* raw transport error or other exception kind reaches the caller.
C12_TypedOutcome ==
  \A p \in Procs :
    /\ pc[p] = "done"
       => \/ outcome[p].kind = "ok"
          \/ outcome[p].kind = "error" /\ outcome[p].name \in Taxonomy
    /\ pc[p] # "done" => outcome[p] = NoOutcome

C12_Witness ==
  \E p \in Procs :
    /\ op[p] = "getBalance" /\ pc[p] = "done"
    /\ Len(reqs[p]) > 0
    /\ Last(reqs[p]).ep = "/checkWallet"
    /\ Last(reqs[p]).status = NoResponse
    /\ outcome[p].name = "PipeApiError"

\* C13: a failure of an operation's own request, a 401 answer received
\* while the token is unexpired included, is reported once: in the step
\* that receives it the call ends with an error, no request is added to
\* the call (no retry, no /auth/refresh, no /auth/login) and the account
\* record is unchanged; a call never sends its own request twice.
C13_FailureReportedOnce ==
  /\ [][\A p \in Procs : \A ep \in OwnEndpoints(op[p]) :
          (/\ Answers(p, ep)
           /\ ~(Resolves(AnswerOf(p).status) /\ Accepts(op[p], AnswerOf(p).status)))
          => /\ pc'[p] = "done"
             /\ outcome'[p].kind = "error"
             /\ Len(reqs'[p]) = Len(reqs[p])
             /\ account' = account]_vars
  /\ [](\A p \in Procs : \A ep \in OwnEndpoints(op[p]) : CountEp(reqs[p], ep) <= 1)

C13_Witness ==
  \E p \in Procs :
    /\ op[p] \in AuthOps /\ pc[p] = "done"
    /\ Len(reqs[p]) = 1
    /\ reqs[p][1].ep = Endpoint(op[p])
    /\ reqs[p][1].status = 401
    /\ IsTokenValid(account, now)
    /\ outcome[p].kind = "error"

\* the entries of a list that carry fileId
EntriesOf(files, fileId) == { i \in 1..Len(files) : files[i].fileId = fileId }

\* this step is a call of the storage method o whose write reached the medium
Wrote(o) == ret'.op = o /\ ret'.wrote

\* C14: addFile is an upsert that moves to the head: after addFile(r2) on a
\* manifest that holds an entry with r2.fileId and other metadata,
\* listFiles has exactly one entry with that fileId, the entry equals r2
\* and it is at index 0 of the list.
C14_UpsertMovesToHead ==
  [][\A file \in FileRecords :
       (/\ Wrote("addFile") /\ ret'.arg = file
        /\ getFile(FILES_STORAGE_KEY, file.fileId) \notin {NoFileRecord, file})
       => /\ Cardinality(EntriesOf(listFiles(FILES_STORAGE_KEY)', file.fileId)) = 1
          /\ listFiles(FILES_STORAGE_KEY)'[1] = file]_vars

\* C15: count() never exceeds maxFiles; an addFile of a new identifier
\* keeps the new entry at the head and drops the oldest entries, the tail
\* of the most-recent-first list, beyond the capacity.
C15_CapacityBound ==
  /\ [](count(FILES_STORAGE_KEY) <= MaxFiles)
  /\ [][\A file \in FileRecords :
          (/\ Wrote("addFile") /\ ret'.arg = file
           /\ getFile(FILES_STORAGE_KEY, file.fileId) = NoFileRecord)
          => /\ listFiles(FILES_STORAGE_KEY)'[1] = file
             /\ \A i \in 2..Len(listFiles(FILES_STORAGE_KEY)') : listFiles(FILES_STORAGE_KEY)'[i] = listFiles(FILES_STORAGE_KEY)[i - 1]
             /\ Len(listFiles(FILES_STORAGE_KEY)') = IF Len(listFiles(FILES_STORAGE_KEY)) + 1 > MaxFiles
                                  THEN MaxFiles ELSE Len(listFiles(FILES_STORAGE_KEY)) + 1]_vars

C15_Witness ==
  /\ ret.op = "addFile" /\ ret.wrote
  /\ ret.dropped # << >>
  /\ count(FILES_STORAGE_KEY) = MaxFiles
  /\ listFiles(FILES_STORAGE_KEY)[1] = ret.arg

\* C16: the manifest holds no two entries with the same fileId, and
\* getFile(id) returns a record exactly when listFiles has an entry with
\* that fileId.
C16_UniqueByFileId ==
  \A fileId \in FileIds :
    /\ Cardinality(EntriesOf(listFiles(FILES_STORAGE_KEY), fileId)) <= 1
    /\ (getFile(FILES_STORAGE_KEY, fileId) # NoFileRecord) <=> (EntriesOf(listFiles(FILES_STORAGE_KEY), fileId) # {})
    /\ getFile(FILES_STORAGE_KEY, fileId) # NoFileRecord => getFile(FILES_STORAGE_KEY, fileId).fileId = fileId

C16_Witness ==
  /\ ret.op = "addFile" /\ ret.wrote
  /\ count(FILES_STORAGE_KEY) = 2
  /\ listFiles(FILES_STORAGE_KEY)[2] = ret.arg
  /\ getFile(FILES_STORAGE_KEY, ret.arg.fileId) = ret.arg

\* C17: if the credential slot holds a record in which a required field
\* (username, password, userId, userAppKey) is absent or empty, load()
\* returns null and the slot is cleared, so that hasAccount() is false.
C17_LoadRejectsIncompleteRecord ==
  [][(/\ slot.form = "object"
      /\ \/ ~Truthy(parseAccount(slot.value).username)
         \/ ~Truthy(parseAccount(slot.value).password)
         \/ ~Truthy(parseAccount(slot.value).userId)
         \/ ~Truthy(parseAccount(slot.value).userAppKey)
      /\ ret'.op = "load")
     => /\ ret'.isNull
        /\ ~hasAccount']_vars

\* C18: load() never raises, and immediately after a load() that returned
\* null hasAccount() is false.
C18_NullLoadLeavesSlotEmpty ==
  ret.op = "load" => /\ ret.kind = "ok"
                     /\ ret.isNull => ~hasAccount

\* C19: when the medium rejects the write, save, addFile and removeFile
\* each fail with a PipeStorageError; none of them returns normally.
C19_WriteFailureSurfaces ==
  (ret.op \in {"save", "addFile", "removeFile"} /\ ~ret.wrote)
  => /\ ret.kind = "error"
     /\ ret.name = "PipeStorageError"

\* the identifiers uploadFile can return
Identifiers == { blake3(d) : d \in Payloads } \cup { sha256(d) : d \in Payloads }

HoldsUpload(p) ==
  /\ pc[p] \in {"done", "tracked"}
  /\ outcome[p].kind = "ok"
  /\ outcome[p].value.t = "upload"

\* C21: the identifier uploadFile returns is a function of the payload
\* bytes only: two successful uploads of identical bytes return the same
\* fileId, whatever the file names and the time of the call; the fileId of
\* a result equals its blake3Hash, its fileName is the caller's name and
\* its size the byte length.
C21_IdentifierFromBytesOnly ==
  \A p, q \in Procs :
    (HoldsUpload(p) /\ HoldsUpload(q))
    => /\ outcome[p].value.fileId = outcome[p].value.blake3Hash
       /\ outcome[p].value.fileName = args[p].fileName
       /\ outcome[p].value.size = Len(args[p].file)
       /\ args[p].file = args[q].file
            => outcome[p].value.fileId = outcome[q].value.fileId

\* the position in the log of the first request to ep (0 when there is none)
IndexOf(log, ep) ==
  IF CountEp(log, ep) = 0 THEN 0
  ELSE CHOOSE i \in 1..Len(log) :
         log[i].ep = ep /\ \A j \in 1..(i - 1) : log[j].ep # ep

\* C22: createAccount is two-step and ordered: /auth/set-password is issued
\* only after /users answered 200 and carries the user_id and user_app_key
\* of that answer; after a failed /users no /auth/set-password is issued;
\* an account record is returned only when both answered 200 and it
\* carries the tokens of the set-password answer.
C22_CreateAccountTwoStep ==
  \A p \in Procs :
    op[p] = "createAccount"
    => /\ \A i \in 1..Len(reqs[p]) :
            reqs[p][i].ep = "/auth/set-password"
            => /\ i = 2
               /\ reqs[p][1].ep = "/users" /\ reqs[p][1].status = 200
               /\ reqs[p][i].body =
                    { <<"user_id", reqs[p][1].data.user_id>>,
                      <<"user_app_key", reqs[p][1].data.user_app_key>>,
                      <<"new_password", args[p].password>> }
       /\ (Len(reqs[p]) > 0 /\ reqs[p][1].status \notin {Pending, 200})
            => CountEp(reqs[p], "/auth/set-password") = 0
       /\ (pc[p] = "done" /\ outcome[p].kind = "ok")
            => /\ Len(reqs[p]) = 2
               /\ reqs[p][1].status = 200 /\ reqs[p][2].status = 200
               /\ outcome[p].value.t = "account"
               /\ outcome[p].value.account.userId = reqs[p][1].data.user_id
               /\ outcome[p].value.account.userAppKey = reqs[p][1].data.user_app_key
               /\ outcome[p].value.account.accessToken = reqs[p][2].data.access_token
               /\ outcome[p].value.account.refreshToken = reqs[p][2].data.refresh_token

C22_Witness ==
  \E p \in Procs :
    /\ op[p] = "createAccount" /\ pc[p] = "done" /\ outcome[p].kind = "ok"
    /\ reqs[p][2].ep = "/auth/set-password"
    /\ Truthy(outcome[p].value.account.accessToken)
    /\ outcome[p].value.account.refreshToken = reqs[p][2].data.refresh_token

\* C23: login succeeds whenever /auth/login answered 200, whatever the
\* answer to the /checkWallet call that follows: the returned account has
\* the user_id of /checkWallet when it returned one and the username
\* otherwise (failure or no user_id), and in both cases the access and
\* refresh tokens of the login answer.
C23_LoginToleratesWalletFailure ==
  \A p \in Procs :
    (op[p] = "login" /\ Len(reqs[p]) > 0 /\ reqs[p][1].status = 200)
    => /\ pc[p] \in {"login_wallet", "done"}
       /\ pc[p] = "done"
            => /\ outcome[p].kind = "ok"
               /\ outcome[p].value.t = "account"
               /\ outcome[p].value.account.accessToken = reqs[p][1].data.access_token
               /\ outcome[p].value.account.refreshToken = reqs[p][1].data.refresh_token
               /\ outcome[p].value.account.userId =
                    IF Resolves(reqs[p][2].status) /\ Truthy(reqs[p][2].data.user_id)
                    THEN reqs[p][2].data.user_id
                    ELSE args[p].username

C23_Witness ==
  \E p \in Procs :
    /\ op[p] = "login" /\ pc[p] = "done"
    /\ Len(reqs[p]) = 2
    /\ reqs[p][1].status = 200
    /\ ~Resolves(reqs[p][2].status)
    /\ outcome[p].kind = "ok"
    /\ outcome[p].value.account.userId = args[p].username
    /\ Truthy(outcome[p].value.account.refreshToken)

\* C24: getBalance degrades only on the secondary query: with /checkWallet
\* answered successfully and /checkCustomToken failed it returns pipe = 0
\* with the sol and publicKey of /checkWallet; with /checkWallet failed it
\* fails with a PipeApiError and /checkCustomToken is not issued.
C24_BalanceDegradesOnSecondaryOnly ==
  \A p \in Procs :
    (op[p] = "getBalance" /\ IndexOf(reqs[p], "/checkWallet") > 0)
    => LET wallet == reqs[p][IndexOf(reqs[p], "/checkWallet")]
           tokenAt == IndexOf(reqs[p], "/checkCustomToken")
       IN /\ (Resolves(wallet.status) /\ tokenAt > 0
               /\ reqs[p][tokenAt].status # Pending
               /\ ~Resolves(reqs[p][tokenAt].status))
              => /\ pc[p] = "done"
                 /\ outcome[p] = Ok([t |-> "balance", sol |-> wallet.data.balance_sol,
                                     pipe |-> 0,
                                     publicKey |-> wallet.data.public_key])
          /\ (wallet.status # Pending /\ ~Resolves(wallet.status))
              => /\ pc[p] = "done"
                 /\ outcome[p].kind = "error"
                 /\ outcome[p].name = "PipeApiError"
                 /\ tokenAt = 0

C24_Witness ==
  \E p \in Procs :
    /\ op[p] = "getBalance" /\ pc[p] = "done"
    /\ Len(reqs[p]) > 0
    /\ Last(reqs[p]).ep = "/checkCustomToken"
    /\ ~Resolves(Last(reqs[p]).status)
    /\ outcome[p].kind = "ok"
    /\ outcome[p].value.pipe = 0
    /\ outcome[p].value.sol = 5
    /\ outcome[p].value.publicKey = "pk1"

\* the record holds the access token of this answer with the expiry
\* computed from the expires_in of the same answer
Paired(acc, data, t) ==
  /\ acc.accessToken = data.access_token
  /\ acc.tokenExpiry = t + data.expires_in * MsPerSecond

C29_AcceptedUploadReturnsResult ==
  \A p \in Procs :
    (/\ op[p] = "uploadFile" /\ pc[p] = "done"
     /\ Len(reqs[p]) > 0
     /\ Last(reqs[p]).ep = "/upload"
     /\ Last(reqs[p]).status \in {200, 202})
    => /\ outcome[p].kind = "ok"
       /\ outcome[p].value.t = "upload"

\* this step is a call of addFile, removeFile or clear on the manifest
\* PipeFileStorage.forAccount(acc)
OnScopeOf(acc) ==
  /\ ret'.op \in {"addFile", "removeFile", "clearFiles"}
  /\ ret'.key = forAccount(acc)

\* C26: manifests are independent per account scope: a call of addFile,
\* removeFile or clear on forAccount(a) leaves listFiles of forAccount(b)
\* for every account b with another username, listFiles of the global
\* manifest and the credential slot unchanged, and two instances made by
\* forAccount for the same username always list the same records.
C26_ScopesIndependent ==
  /\ [](\A a, b \in ScopeAccounts :
          a.username = b.username
          => listFiles(forAccount(a)) = listFiles(forAccount(b)))
  /\ [][\A a \in ScopeAccounts :
          OnScopeOf(a)
          => /\ \A b \in ScopeAccounts :
                  b.username # a.username
                  => listFiles(forAccount(b))' = listFiles(forAccount(b))
             /\ listFiles(FILES_STORAGE_KEY)' = listFiles(FILES_STORAGE_KEY)
             /\ slot' = slot]_vars

C26_Witness ==
  \E a, b \in ScopeAccounts :
    /\ a.username # b.username
    /\ ret.op = "addFile" /\ ret.wrote /\ ret.key = forAccount(a)
    /\ listFiles(forAccount(a)) = <<ret.arg>>
    /\ Len(listFiles(forAccount(b))) = 2
    /\ listFiles(FILES_STORAGE_KEY) # << >>
    /\ listFiles(FILES_STORAGE_KEY) # listFiles(forAccount(a))
    /\ slot.form = "object"

\* the record call p handed to addFile
TrackedRecord(p) ==
  [fileId |-> outcome[p].value.fileId, fileName |-> outcome[p].value.fileName,
   size |-> outcome[p].value.size, uploadedAt |-> outcome[p].value.uploadedAt,
   blake3Hash |-> outcome[p].value.blake3Hash]

\* C27: writers to one manifest scope are serialized: when calls in flight
\* at the same time each end by calling addFile on the same scope, with
\* pairwise distinct identifiers and within the capacity, the manifest
\* holds every added record in every interleaving; no call's
\* read-modify-write overwrites the update of another.
C27_SameScopeWritersSerialized ==
  (\A p, q \in Procs :
      (p # q /\ pc[p] = "tracked" /\ pc[q] = "tracked")
      => outcome[p].value.fileId # outcome[q].value.fileId)
  => \A p \in Procs :
       pc[p] = "tracked"
       => \E i \in 1..Len(listFiles(forAccount(account))) :
            listFiles(forAccount(account))[i] = TrackedRecord(p)

C27_Witness ==
  /\ \A p \in Procs : pc[p] = "tracked"
  /\ \E p, q \in Procs : outcome[p].value.fileId # outcome[q].value.fileId
  /\ Len(listFiles(forAccount(account))) = Cardinality(Procs)

Letters == Lower \cup Upper

\* the inputs the claim calls valid
ValidUsername(u) ==
  /\ Len(u) >= 8
  /\ \A i \in 1..Len(u) : CharAt(u, i) \in Letters \cup Digit \cup {"_"}

ValidPassword(pw, strict) ==
  /\ Len(pw) >= 8
  /\ strict => /\ \E i \in 1..Len(pw) : CharAt(pw, i) \in Upper
               /\ \E i \in 1..Len(pw) : CharAt(pw, i) \in Lower
               /\ \E i \in 1..Len(pw) : CharAt(pw, i) \in Digit
               /\ \E i \in 1..Len(pw) : CharAt(pw, i) \notin Letters \cup Digit

ValidAmount(amt) == amt # NaN /\ amt.val > 0

\* the call's arguments are valid in the claim's sense
ValidArgs(p) ==
  CASE op[p] \in {"validateUsername", "assertValidUsername"} ->
         ValidUsername(args[p].username)
    [] op[p] \in {"validatePassword", "assertValidPassword"} ->
         ValidPassword(args[p].password, args[p].strict)
    [] OTHER -> ValidAmount(args[p].amount)

\* C28: validateUsername is valid iff the username has at least 8
\* characters, all letters, digits or underscore; validatePassword iff the
\* password has at least 8 characters and, in strict mode, an uppercase
\* letter, a lowercase letter, a digit and a non-alphanumeric character;
\* validateAmount iff the amount is a number, not NaN and greater than 0;
\* each assertValid* throws a ValidationError exactly when the matching
\* validate* is invalid.
C28_ValidatorsAcceptExactly ==
  \A p \in Procs :
    pc[p] = "done"
    => /\ op[p] \in {"validateUsername", "validatePassword", "validateAmount"}
            => outcome[p] = Ok([t |-> "validation", valid |-> ValidArgs(p)])
       /\ op[p] \in {"assertValidUsername", "assertValidPassword", "assertValidAmount"}
            => outcome[p] = IF ValidArgs(p) THEN Ok(NoValue) ELSE PipeValidationError

C28_Witness ==
  \E p \in Procs :
    /\ pc[p] = "done" /\ op[p] = "assertValidPassword"
    /\ args[p].strict /\ Len(args[p].password) >= 8
    /\ ~ValidPassword(args[p].password, TRUE)
    /\ outcome[p] = PipeValidationError

\* the requests a header request of call p has made to ep, and whether one
\* of them came back with a token
Yielded(p, ep) ==
  \E i \in 1..Len(reqs[p]) : reqs[p][i].ep = ep /\ reqs[p][i].status = 200

InHeaderRequest(p) == pc[p] \in {"auth_refresh", "auth_login"}

\* C30: a header request terminates; it issues at most one /auth/refresh
\* and at most one /auth/login call, the login only when the refresh was
\* skipped for want of a refresh token or did not yield a token, never
\* after a refresh that succeeded; legacy headers are never returned after
\* a refresh or login that succeeded.
C30_HeaderRequestBounded ==
  /\ [](\A p \in Procs :
          /\ CountEp(reqs[p], "/auth/refresh") <= 1
          /\ CountEp(reqs[p], "/auth/login") <= 1
          /\ CountEp(reqs[p], "/auth/login") = 1
               => /\ ~Yielded(p, "/auth/refresh")
                  /\ CountEp(reqs[p], "/auth/refresh") = 1
                       => /\ IndexOf(reqs[p], "/auth/refresh") < IndexOf(reqs[p], "/auth/login")
                          /\ reqs[p][IndexOf(reqs[p], "/auth/refresh")].status # Pending
          /\ (pc[p] \in {"headers", "request", "token_balance"}
              /\ authHeaders[p] = LegacyHeaders(account))
               => ~Yielded(p, "/auth/refresh") /\ ~Yielded(p, "/auth/login"))
  /\ [][\A p \in Procs :
          (StartsAuthenticated(p) /\ CountEp(reqs'[p], "/auth/login") = 1)
          => ~Truthy(account.refreshToken)]_vars
  /\ \A p \in Procs : InHeaderRequest(p) ~> ~InHeaderRequest(p)

C30_Witness ==
  \E p \in Procs :
    /\ pc[p] = "headers"
    /\ CountEp(reqs[p], "/auth/refresh") = 1
    /\ CountEp(reqs[p], "/auth/login") = 1
    /\ ~Yielded(p, "/auth/refresh")
    /\ Yielded(p, "/auth/login")
    /\ authHeaders[p] = BearerHeaders(account.accessToken)

\* this step is a step of the header request of call p that does not hand
\* headers to the operation
HeaderStepWithoutHeaders(p) ==
  /\ op'[p] \in AuthOps
  /\ pc[p] \in {"idle", "auth_refresh", "auth_login"}
  /\ pc'[p] \in {"auth_refresh", "auth_login", "done"}

\* C31: if the header request of an authenticated operation fails, the
\* operation's own request is never issued in that call and the account's
\* accessToken, refreshToken and tokenExpiry are what they were before the
\* call: no step of a header request that does not return headers changes
\* them, and the call ends with the error without its own request.
C31_FailedHeaderRequestIsInert ==
  [][\A p \in Procs :
       /\ HeaderStepWithoutHeaders(p)
            => /\ account'.accessToken = account.accessToken
               /\ account'.refreshToken = account.refreshToken
               /\ account'.tokenExpiry = account.tokenExpiry
               /\ pc'[p] = "done"
                    => /\ outcome'[p].kind = "error"
                       /\ CountEp(reqs'[p], Endpoint(op'[p])) = 0
       /\ pc[p] = "done" => reqs'[p] \in {reqs[p], << >>}]_vars

C31_Witness ==
  \E p \in Procs :
    /\ pc[p] = "done" /\ op[p] = "uploadFile"
    /\ outcome[p] = AuthFailure
    /\ CountEp(reqs[p], "/auth/refresh") = 1
    /\ CountEp(reqs[p], "/auth/login") = 1
    /\ CountEp(reqs[p], "/upload") = 0
    /\ account.accessToken = "at0" /\ account.refreshToken = "rt0"

\* this step updates the account with the tokens of a refresh or re-login
\* answer that has just arrived for call p
Obtains(p) ==
  /\ op[p] \in AuthOps
  /\ Answers(p, "/auth/refresh") \/ Answers(p, "/auth/login")
  /\ AnswerOf(p).status = 200

\* C32: an account just returned by createAccount or login, or just updated
\* by a successful refresh or re-login, is in the VALID state: its token is
\* unexpired at once, and every authenticated operation started on the
\* account before tokenExpiry issues no /auth/refresh and no /auth/login
\* call and sends the access token the account obtained last.
C32_FreshTokensAreValid ==
  [][\A p \in Procs :
       /\ Obtains(p)
            => /\ IsTokenValid(account', now)
               /\ account'.accessToken = AnswerOf(p).data.access_token
               /\ authHeaders'[p] = Bearer(AnswerOf(p).data.access_token)
       /\ (/\ outcome'[p] # outcome[p] /\ outcome'[p].kind = "ok"
           /\ outcome'[p].value.t = "account")
            => IsTokenValid(outcome'[p].value.account, now)
       /\ (StartsAuthenticated(p) /\ Truthy(account.accessToken)
           /\ now < account.tokenExpiry)
            => /\ pc'[p] = "headers"
               /\ CountEp(reqs'[p], "/auth/refresh") = 0
               /\ CountEp(reqs'[p], "/auth/login") = 0
               /\ authHeaders'[p] = Bearer(account.accessToken)
       /\ (pc[p] = "headers" /\ pc'[p] = "request")
            => Last(reqs'[p]).hdrs = authHeaders[p]]_vars

C32_Witness ==
  \E p \in Procs :
    /\ op[p] = "deleteFile" /\ pc[p] = "request"
    /\ Len(reqs[p]) = 1
    /\ account.username = "alice_01" /\ account.userId = "uid7"
    /\ account.accessToken = AccessToken(1)
    /\ reqs[p][1].hdrs = Bearer(AccessToken(1))

\* C33: a successful refresh whose answer carries no refresh token leaves
\* account.refreshToken as it was while accessToken and tokenExpiry are
\* replaced by those of the answer; a successful refresh or re-login never
\* changes username, password, userId or userAppKey.
C33_RefreshKeepsIdentity ==
  [][\A p \in Procs :
       (/\ op[p] \in AuthOps
        /\ Answers(p, "/auth/refresh") \/ Answers(p, "/auth/login")
        /\ AnswerOf(p).status = 200)
       => /\ account'.username = account.username
          /\ account'.password = account.password
          /\ account'.userId = account.userId
          /\ account'.userAppKey = account.userAppKey
          /\ (Answers(p, "/auth/refresh") /\ ~Truthy(AnswerOf(p).data.refresh_token))
               => /\ account'.refreshToken = account.refreshToken
                  /\ account'.accessToken = AnswerOf(p).data.access_token
                  /\ account'.tokenExpiry =
                       now + AnswerOf(p).data.expires_in * MsPerSecond]_vars

C33_Witness ==
  \E p \in Procs :
    /\ op[p] \in AuthOps /\ pc[p] = "headers"
    /\ Len(reqs[p]) = 1
    /\ reqs[p][1].ep = "/auth/refresh" /\ reqs[p][1].status = 200
    /\ ~Truthy(reqs[p][1].data.refresh_token)
    /\ account.refreshToken = "rt0"
    /\ account.accessToken = AccessToken(1)
    /\ account.tokenExpiry > now

\* the token answers the calls have received
TokenAnswersSeen ==
  UNION { { reqs[p][i].data : i \in 1..Len(reqs[p]) } : p \in Procs } \ {NoData}

\* C34: token updates are atomic with respect to cooperative interleaving:
\* in every state in which the concurrent operations on an account are
\* suspended, accessToken and tokenExpiry of the account come from one
\* answer of the service, never the token of one answer with the expiry of
\* another; every step that changes one of them writes both from the
\* answer that step received.
C34_TokenUpdateAtomic ==
  /\ [](\/ account \in InitAccounts
        \/ \E d \in TokenAnswersSeen :
             /\ account.accessToken = d.access_token
             /\ \E k \in 0..MaxTicks :
                  account.tokenExpiry =
                    StartTime + k * TickMs + d.expires_in * MsPerSecond)
  /\ [][(account'.accessToken # account.accessToken
         \/ account'.tokenExpiry # account.tokenExpiry)
        => \E p \in Procs :
             /\ Answers(p, "/auth/refresh") \/ Answers(p, "/auth/login")
             /\ AnswerOf(p).status = 200
             /\ account'.accessToken = AnswerOf(p).data.access_token
             /\ account'.tokenExpiry =
                  now + AnswerOf(p).data.expires_in * MsPerSecond]_vars

C34_Witness ==
  \E p, q \in Procs :
    /\ p # q
    /\ Yielded(p, "/auth/refresh") /\ Yielded(q, "/auth/login")
    /\ pc[p] = "request" /\ pc[q] = "request"
    /\ account.accessToken = AccessToken(2)
    /\ account.tokenExpiry > now

\* the two shapes of a header set
IsBearerShape(hdrs) ==
  /\ Cardinality(hdrs) = 1
  /\ \A h \in hdrs : h[1] = "Authorization" /\ SubSeq(h[2], 1, 7) = "Bearer "

IsLegacyShape(hdrs) ==
  /\ Cardinality(hdrs) = 2
  /\ { h[1] : h \in hdrs } = {"X-User-Id", "X-User-App-Key"}

\* C35: every header set getAuthHeaders returns is either the single
\* Authorization bearer entry or the X-User-Id / X-User-App-Key pair; the
\* pair is returned only when no bearer token was obtained in the request
\* and userAppKey is neither empty nor 'jwt-based'; with such a userAppKey
\* and no bearer token the request fails.
C35_HeaderShapes ==
  [][\A p \in Procs :
       (op'[p] \in AuthOps /\ pc[p] \in {"idle", "auth_refresh", "auth_login"})
       => /\ pc'[p] = "headers"
               => /\ IsBearerShape(authHeaders'[p]) \/ IsLegacyShape(authHeaders'[p])
                  /\ IsLegacyShape(authHeaders'[p])
                       => /\ ~IsTokenValid(account, now)
                          /\ ~Yielded(p, "/auth/refresh")'
                          /\ ~Yielded(p, "/auth/login")'
                          /\ account.userAppKey \notin {"", "jwt-based"}
                          /\ authHeaders'[p] =
                               { <<"X-User-Id", account.userId>>,
                                 <<"X-User-App-Key", account.userAppKey>> }
          /\ (/\ pc'[p] \in {"headers", "done"}
              /\ outcome'[p].name # "PipeValidationError"
              /\ account.userAppKey \in {"", "jwt-based"}
              /\ ~IsTokenValid(account, now)
              /\ ~Yielded(p, "/auth/refresh")' /\ ~Yielded(p, "/auth/login")')
               => /\ pc'[p] = "done"
                  /\ outcome'[p].kind = "error"
                  /\ outcome'[p].name = "PipeApiError"]_vars

C35_Witness ==
  \E p \in Procs :
    /\ op[p] \in AuthOps /\ pc[p] = "headers"
    /\ IsLegacyShape(authHeaders[p])
    /\ CountEp(reqs[p], "/auth/refresh") = 1
    /\ CountEp(reqs[p], "/auth/login") = 1

\* C36: listFiles is most-recent-first by insertion: addFile of a record
\* whose fileId is not in the manifest puts the record at index 0 and
\* keeps the order of the records already present (all of them within the
\* capacity), so that records added with pairwise distinct identifiers are
\* listed in reverse order of insertion.
C36_MostRecentFirst ==
  [][\A file \in FileRecords :
       (/\ Wrote("addFile") /\ ret'.arg = file
        /\ getFile(FILES_STORAGE_KEY, file.fileId) = NoFileRecord)
       => LET before == listFiles(FILES_STORAGE_KEY)
              after == listFiles(FILES_STORAGE_KEY)'
          IN /\ after[1] = file
             /\ Len(before) < MaxFiles => after = <<file>> \o before
             /\ \A i, j \in 1..Len(before) :
                  (i < j /\ j < MaxFiles)
                  => /\ after[i + 1] = before[i]
                     /\ after[j + 1] = before[j]]_vars

C36_Witness ==
  /\ ret.op = "addFile" /\ ret.wrote /\ ret.dropped = << >>
  /\ count(FILES_STORAGE_KEY) = 2
  /\ listFiles(FILES_STORAGE_KEY)[1] = ret.arg
  /\ listFiles(FILES_STORAGE_KEY)[2].fileId # ret.arg.fileId

\* C37: removeFile(id) removes exactly the entry whose fileId is id and
\* leaves the other entries and their order unchanged; when no entry has
\* that fileId listFiles is unchanged, so a repeated removeFile changes
\* nothing; after clear(), count() is 0 and listFiles() is empty.
C37_RemoveExactlyOne ==
  [][/\ \A fileId \in FileIds :
          (Wrote("removeFile") /\ ret'.arg.fileId = fileId)
          => LET before == listFiles(FILES_STORAGE_KEY)
                 after == listFiles(FILES_STORAGE_KEY)'
                 at == findIndex(before, fileId) + 1
             IN /\ EntriesOf(after, fileId) = {}
                /\ at = 0 => after = before
                /\ at > 0 => /\ Len(after) = Len(before) - 1
                             /\ \A i \in 1..Len(after) :
                                  after[i] = IF i < at THEN before[i] ELSE before[i + 1]
     /\ Wrote("clearFiles")
          => /\ count(FILES_STORAGE_KEY)' = 0
             /\ listFiles(FILES_STORAGE_KEY)' = << >>]_vars

C37_Witness ==
  /\ ret.op = "removeFile" /\ ret.wrote
  /\ count(FILES_STORAGE_KEY) = 1
  /\ listFiles(FILES_STORAGE_KEY)[1].fileId # ret.arg.fileId
  /\ localStorage[FILES_STORAGE_KEY].form = "array"

C39_ClientLeavesStores ==
  [][/\ (pc' # pc \/ reqs' # reqs \/ account' # account)
          => localStorage' = localStorage
     /\ slot' # slot => ret'.op = "save" /\ slot' = AccountItem(account)
     /\ (ret'.op = "load" /\ slot.form = "object")
          => /\ ret'.acc = parseAccount(slot.value)
             /\ slot' = slot]_vars

C39_Witness ==
  /\ ret.op = "load" /\ ~ret.isNull
  /\ ret.acc.accessToken = "at0"
  /\ account.accessToken = AccessToken(1)
  /\ listFiles(forAccount(account)) # << >>
  /\ \E p \in Procs : op[p] \in {"uploadFile", "deleteFile"} /\ pc[p] = "done"

====
